---- MODULE Spec2Model ----
(***************************************************************************)
(* StellarGraph: the continuous-integration workflow and the data-loading  *)
(* demonstration notebooks.                                                *)
(*                                                                         *)
(* Part I models one run of the "Continuous Integration" workflow: the     *)
(* event filter ("on"), the expansion of each job's strategy matrix, the   *)
(* step-by-step execution of every matrix job and the way a job's          *)
(* conclusion is derived from its steps.                                   *)
(*                                                                         *)
(* Part II models the graph construction of the demonstration notebooks    *)
(* "Loading data into StellarGraph from NumPy" and "... from NetworkX": the *)
(* values the cells build, the calls they make to IndexedArray,            *)
(* StellarGraph and StellarGraph.from_networkx, and the graph each call    *)
(* returns.                                                                *)
(*                                                                         *)
(* Part III models the notebook that loads the Cora dataset into a Neo4j   *)
(* database: the queries it sends, in batches, and the database they       *)
(* leave.                                                                  *)
(*                                                                         *)
(* Part IV models the cross-validation loop of the graph classification    *)
(* notebook: the folds, the models and the early-stopping callback they    *)
(* share.                                                                  *)
(***************************************************************************)
EXTENDS Integers, Sequences, FiniteSets, TLC

VARIABLES
    event,        \* the webhook event delivered to the repository
    run,          \* "pending" | "started" | "ignored"
    instances,    \* the matrix jobs of the run: sequence of [job, matrix]
    status,       \* per job: "queued" | "in_progress" | "completed"
    steps,        \* per started job: the outcomes of the steps evaluated so far
    cancelled,    \* the running jobs the service has cancelled
    conclusion,   \* per completed job: "success" | "failure" | "cancelled"
    call,         \* the graph construction a notebook cell is about to run
    result,       \* what the call returned or raised
    running,      \* the step of the Neo4j notebook that runs next
    database,     \* the Neo4j database behind graph = py2neo.Graph(...)
    node_list,    \* the DataFrame of papers, one record per row
    edge_list,    \* the DataFrame of citations, one record per row
    batch_start,  \* the loop variable of the running batch loop
    queries,      \* every query sent to the database so far, with its parameters
    stage,        \* where the cross-validation notebook is: "loop", "fit", ...
    fold,         \* the loop variable i of the cross-validation loop
    stdout,       \* the fold numbers printed so far
    test_accs,    \* the list of test accuracies
    model,        \* the Keras model of the running fold
    models,       \* how many Keras models have been created
    stopper,      \* the EarlyStopping callback es
    epoch,        \* inside model.fit: the number of epochs run
    course        \* inside model.fit: how the validation loss of this fit develops

ciVars == <<event, run, instances, status, steps, cancelled, conclusion>>

nbVars == <<call, result>>

dbVars == <<running, database, node_list, edge_list, batch_start, queries>>

cvVars == <<stage, fold, stdout, test_accs, model, models, stopper, epoch, course>>

vars == <<ciVars, nbVars, dbVars, cvVars>>

Range(s) == {s[i] : i \in DOMAIN s}

(***************************************************************************)
(* The workflow file.                                                      *)
(***************************************************************************)

\* on.push.branches without its filter doing anything for feature branches
push_branches_unfiltered == {"develop", "master", "feature/x", "bugfix/y", "gh-pages"}

\* on.push.branches
push_branches == {"develop", "master"}

\* on.pull_request has no `types:` key, which selects the activity types a
\* pull_request trigger has by default
pull_request_types == {"opened", "synchronize", "reopened"}

\* The events of the workflow's "on" map: the event name, and for each the
\* filter an event of that name has to pass.
on(e) ==
    \/ e.type = "push" /\ e.branch \in push_branches
    \/ e.type = "pull_request" /\ e.action \in pull_request_types

\* jobs.build.strategy.matrix.python-version
python_version == << "3.6", "3.7", "3.8" >>

\* jobs.notebooks.strategy.matrix.notebook (a path is the sequence of its
\* components)
notebook ==
    << <<"demos", "basics", "loading-networkx.ipynb">>,
       <<"demos", "basics", "loading-numpy.ipynb">>,
       <<"demos", "basics", "loading-pandas.ipynb">>,
       <<"demos", "basics", "loading-saving-neo4j.ipynb">>,
       <<"demos", "calibration", "calibration-link-prediction.ipynb">>,
       <<"demos", "calibration", "calibration-node-classification.ipynb">>,
       <<"demos", "community_detection", "attacks_clustering_analysis.ipynb">>,
       <<"demos", "connector", "neo4j", "cluster-gcn-on-cora-neo4j-example.ipynb">>,
       <<"demos", "connector", "neo4j", "directed-graphsage-on-cora-neo4j-example.ipynb">>,
       <<"demos", "connector", "neo4j", "load-cora-into-neo4j.ipynb">>,
       <<"demos", "connector", "neo4j", "undirected-graphsage-on-cora-neo4j-example.ipynb">>,
       <<"demos", "embeddings", "attri2vec-embeddings.ipynb">>,
       <<"demos", "embeddings", "deep-graph-infomax-embeddings.ipynb">>,
       <<"demos", "embeddings", "gcn-unsupervised-graph-embeddings.ipynb">>,
       <<"demos", "embeddings", "graphsage-unsupervised-sampler-embeddings.ipynb">>,
       <<"demos", "embeddings", "graphwave-embeddings.ipynb">>,
       <<"demos", "embeddings", "keras-node2vec-embeddings.ipynb">>,
       <<"demos", "embeddings", "metapath2vec-embeddings.ipynb">>,
       <<"demos", "embeddings", "node2vec-embeddings.ipynb">>,
       <<"demos", "embeddings", "watch-your-step-embeddings.ipynb">>,
       <<"demos", "ensembles", "ensemble-link-prediction-example.ipynb">>,
       <<"demos", "ensembles", "ensemble-node-classification-example.ipynb">>,
       <<"demos", "graph-classification", "dgcnn-graph-classification.ipynb">>,
       <<"demos", "graph-classification", "gcn-supervised-graph-classification.ipynb">>,
       <<"demos", "interpretability", "gat-node-link-importance.ipynb">>,
       <<"demos", "interpretability", "gcn-node-link-importance.ipynb">>,
       <<"demos", "interpretability", "gcn-sparse-node-link-importance.ipynb">>,
       <<"demos", "interpretability", "hateful-twitters-interpretability.ipynb">>,
       <<"demos", "link-prediction", "attri2vec-link-prediction.ipynb">>,
       <<"demos", "link-prediction", "complex-link-prediction.ipynb">>,
       <<"demos", "link-prediction", "ctdne-link-prediction.ipynb">>,
       <<"demos", "link-prediction", "distmult-link-prediction.ipynb">>,
       <<"demos", "link-prediction", "gcn-link-prediction.ipynb">>,
       <<"demos", "link-prediction", "graphsage-link-prediction.ipynb">>,
       <<"demos", "link-prediction", "hinsage-link-prediction.ipynb">>,
       <<"demos", "link-prediction", "homogeneous-comparison-link-prediction.ipynb">>,
       <<"demos", "link-prediction", "metapath2vec-link-prediction.ipynb">>,
       <<"demos", "link-prediction", "node2vec-link-prediction.ipynb">>,
       <<"demos", "node-classification", "attri2vec-node-classification.ipynb">>,
       <<"demos", "node-classification", "cluster-gcn-node-classification.ipynb">>,
       <<"demos", "node-classification", "directed-graphsage-node-classification.ipynb">>,
       <<"demos", "node-classification", "gat-node-classification.ipynb">>,
       <<"demos", "node-classification", "gcn-deep-graph-infomax-fine-tuning-node-classification.ipynb">>,
       <<"demos", "node-classification", "gcn-node-classification.ipynb">>,
       <<"demos", "node-classification", "gcn", "gcn-cora-node-classification-example.ipynb">>,
       <<"demos", "node-classification", "graphsage-inductive-node-classification.ipynb">>,
       <<"demos", "node-classification", "graphsage-node-classification.ipynb">>,
       <<"demos", "node-classification", "keras-node2vec-node-classification.ipynb">>,
       <<"demos", "node-classification", "node2vec-node-classification.ipynb">>,
       <<"demos", "node-classification", "node2vec-weighted-node-classification.ipynb">>,
       <<"demos", "node-classification", "ppnp-node-classification.ipynb">>,
       <<"demos", "node-classification", "rgcn-node-classification.ipynb">>,
       <<"demos", "node-classification", "sgc-node-classification.ipynb">>,
       <<"demos", "time-series", "gcn-lstm-time-series.ipynb">>,
       <<"demos", "use-cases", "hateful-twitters.ipynb">>,
       <<"demos", "zzz-internal-developers", "graph-resource-usage.ipynb">> >>

\* The exclusions with the Neo4j notebook outside demos/connector forgotten.
exclude_connector_only ==
    << <<"demos", "connector", "neo4j", "cluster-gcn-on-cora-neo4j-example.ipynb">>,
       <<"demos", "connector", "neo4j", "directed-graphsage-on-cora-neo4j-example.ipynb">>,
       <<"demos", "connector", "neo4j", "load-cora-into-neo4j.ipynb">>,
       <<"demos", "connector", "neo4j", "undirected-graphsage-on-cora-neo4j-example.ipynb">>,
       <<"demos", "community_detection", "attacks_clustering_analysis.ipynb">>,
       <<"demos", "interpretability", "gat-node-link-importance.ipynb">>,
       <<"demos", "interpretability", "gcn-node-link-importance.ipynb">>,
       <<"demos", "interpretability", "gcn-sparse-node-link-importance.ipynb">>,
       <<"demos", "interpretability", "hateful-twitters-interpretability.ipynb">>,
       <<"demos", "link-prediction", "attri2vec-link-prediction.ipynb">>,
       <<"demos", "node-classification", "rgcn-node-classification.ipynb">>,
       <<"demos", "use-cases", "hateful-twitters.ipynb">> >>

\* jobs.notebooks.strategy.matrix.exclude
exclude ==
    << <<"demos", "connector", "neo4j", "cluster-gcn-on-cora-neo4j-example.ipynb">>,
       <<"demos", "connector", "neo4j", "directed-graphsage-on-cora-neo4j-example.ipynb">>,
       <<"demos", "connector", "neo4j", "load-cora-into-neo4j.ipynb">>,
       <<"demos", "connector", "neo4j", "undirected-graphsage-on-cora-neo4j-example.ipynb">>,
       <<"demos", "basics", "loading-saving-neo4j.ipynb">>,
       <<"demos", "community_detection", "attacks_clustering_analysis.ipynb">>,
       <<"demos", "interpretability", "gat-node-link-importance.ipynb">>,
       <<"demos", "interpretability", "gcn-node-link-importance.ipynb">>,
       <<"demos", "interpretability", "gcn-sparse-node-link-importance.ipynb">>,
       <<"demos", "interpretability", "hateful-twitters-interpretability.ipynb">>,
       <<"demos", "link-prediction", "attri2vec-link-prediction.ipynb">>,
       <<"demos", "node-classification", "rgcn-node-classification.ipynb">>,
       <<"demos", "use-cases", "hateful-twitters.ipynb">> >>

\* Both matrices with fail-fast switched off.
fail_fast_off == [build |-> FALSE, notebooks |-> FALSE]

\* jobs.<job>.strategy.fail-fast is set by neither matrix job, which leaves it
\* at the value a strategy has by default
fail_fast == [build |-> TRUE, notebooks |-> TRUE]

\* The build steps with the upload of the test results left conditional on
\* success.
build_steps_upload_on_success ==
    << [name |-> "actions/checkout@v2",        if |-> "success()"],
       [name |-> "Setup Python",               if |-> "success()"],
       [name |-> "Restore cache",              if |-> "success()"],
       [name |-> "Install dependencies",       if |-> "success()"],
       [name |-> "Run pytest tests",           if |-> "success()"],
       [name |-> "Upload pytest test results", if |-> "success()"],
       [name |-> "Upload coverage to Codecov", if |-> "success()"] >>

\* jobs.build.steps: the step and its `if:` condition (success() when the
\* step states none)
build_steps ==
    << [name |-> "actions/checkout@v2",        if |-> "success()"],
       [name |-> "Setup Python",               if |-> "success()"],
       [name |-> "Restore cache",              if |-> "success()"],
       [name |-> "Install dependencies",       if |-> "success()"],
       [name |-> "Run pytest tests",           if |-> "success()"],
       [name |-> "Upload pytest test results", if |-> "always()"],
       [name |-> "Upload coverage to Codecov", if |-> "success()"] >>

\* jobs.notebooks.steps
notebooks_steps ==
    << [name |-> "actions/checkout@v2",  if |-> "success()"],
       [name |-> "Setup Python",         if |-> "success()"],
       [name |-> "Restore cache",        if |-> "success()"],
       [name |-> "Install dependencies", if |-> "success()"],
       [name |-> "Run notebook",         if |-> "success()"],
       [name |-> "Upload artifact",      if |-> "always()"] >>

\* jobs.validate-notebooks-list.steps
validate_steps ==
    << [name |-> "actions/checkout@v2",  if |-> "success()"],
       [name |-> "Install dependencies", if |-> "success()"],
       [name |-> "Run check",            if |-> "success()"] >>

(***************************************************************************)
(* Matrix expansion.                                                       *)
(***************************************************************************)

\* The combinations of a one-variable matrix: one per listed value, in the
\* listed order, less every combination an exclude entry matches.
Matrix(values, excluded) ==
    SelectSeq(values, LAMBDA v : \A i \in DOMAIN excluded : excluded[i] # v)

\* One job per combination.
Instantiate(job, combos) ==
    [i \in 1..Len(combos) |-> [job |-> job, matrix |-> combos[i]]]

\* The jobs of one workflow run.
Jobs ==
    Instantiate("build", Matrix(python_version, <<>>))
        \o Instantiate("notebooks", Matrix(notebook, exclude))
        \o << [job |-> "validate-notebooks-list", matrix |-> <<>>] >>

JobIds == DOMAIN instances

StepsOf(j) ==
    CASE instances[j].job = "build" -> build_steps
      [] instances[j].job = "notebooks" -> notebooks_steps
      [] OTHER -> validate_steps

(***************************************************************************)
(* Events.                                                                 *)
(***************************************************************************)

EventTypes == {"push", "pull_request", "schedule", "release", "workflow_dispatch"}
Branches == {"develop", "master", "feature/x", "bugfix/y", "gh-pages"}
Activities == {"opened", "synchronize", "reopened", "closed", "edited", "labeled"}

Events ==
    {[type |-> "pull_request", branch |-> b, action |-> a] :
        b \in Branches, a \in Activities}
    \cup {[type |-> t, branch |-> b, action |-> "none"] :
        t \in EventTypes \ {"pull_request"}, b \in Branches}

(***************************************************************************)
(* One workflow run.                                                       *)
(***************************************************************************)

\* No notebook cell is run.
NoCall == [fn |-> "none"]

NoResult == [kind |-> "none"]

\* A database that holds nothing.
EmptyGraph == [nodes |-> <<>>, relationships |-> <<>>, constraints |-> <<>>, indexes |-> <<>>]

\* No weights: None.
NoWeights == [model |-> 0, trained |-> 0]

\* No Keras model.
NoModel == [id |-> 0, weights |-> NoWeights, stop_training |-> FALSE]

\* A value that is not set.
Unset == [kind |-> "none", value |-> 0]

\* The cross-validation notebook is not run.
NoTraining ==
    /\ stage = "none"
    /\ fold = 0
    /\ stdout = <<>>
    /\ test_accs = <<>>
    /\ model = NoModel
    /\ models = 0
    /\ stopper = [model |-> 0, wait |-> 0, stopped_epoch |-> 0, best |-> Unset,
                  best_weights |-> NoWeights]
    /\ epoch = 0
    /\ course = "none"

\* The Neo4j notebook is not run.
NoIngestion ==
    /\ running = "none"
    /\ database = EmptyGraph
    /\ node_list = <<>>
    /\ edge_list = <<>>
    /\ batch_start = 0
    /\ queries = <<>>

Init ==
    /\ event \in Events
    /\ run = "pending"
    /\ instances = <<>>
    /\ status = <<>>
    /\ steps = <<>>
    /\ cancelled = {}
    /\ conclusion = <<>>
    /\ call = NoCall
    /\ result = NoResult
    /\ NoIngestion
    /\ NoTraining

\* The event passes the workflow's "on" filter: the run is created with all
\* of its jobs queued.
Trigger ==
    /\ run = "pending"
    /\ on(event)
    /\ run' = "started"
    /\ instances' = Jobs
    /\ status' = [j \in DOMAIN Jobs |-> "queued"]
    /\ UNCHANGED <<event, steps, cancelled, conclusion, nbVars, dbVars, cvVars>>

\* The event does not pass the filter: no run.
Ignore ==
    /\ run = "pending"
    /\ ~on(event)
    /\ run' = "ignored"
    /\ UNCHANGED <<event, instances, status, steps, cancelled, conclusion, nbVars, dbVars, cvVars>>

\* A runner picks up a queued job.
StartJob(j) ==
    /\ run = "started"
    /\ status[j] = "queued"
    /\ status' = [status EXCEPT ![j] = "in_progress"]
    /\ steps' = [k \in DOMAIN steps \cup {j} |-> IF k = j THEN <<>> ELSE steps[k]]
    /\ UNCHANGED <<event, run, instances, cancelled, conclusion, nbVars, dbVars, cvVars>>

\* success(): no earlier step of the job has failed and the job is not
\* cancelled.
success(j) == j \notin cancelled /\ \A k \in DOMAIN steps[j] : steps[j][k] # "failure"

\* always(): whatever happened before, cancellation included.
always(j) == TRUE

Condition(j, s) == IF s.if = "always()" THEN always(j) ELSE success(j)

\* The outcome of the job's next step: skipped when its condition is false,
\* otherwise decided by the exit code of what it runs.
StepOutcome(j, exit) ==
    LET s == StepsOf(j)[Len(steps[j]) + 1] IN
    IF ~Condition(j, s) THEN "skipped"
    ELSE IF exit = 0 THEN "success" ELSE "failure"

\* The conclusion taken from the job's last evaluated step alone.
JobResultOfLastStep(j, outcomes) ==
    IF j \in cancelled THEN "cancelled"
    ELSE IF outcomes[Len(outcomes)] = "failure" THEN "failure"
    ELSE "success"

\* The conclusion of a job whose steps had these outcomes.
JobResult(j, outcomes) ==
    IF j \in cancelled THEN "cancelled"
    ELSE IF \E k \in DOMAIN outcomes : outcomes[k] = "failure" THEN "failure"
    ELSE "success"

\* Whether the completion of job j with result r makes the service cancel
\* job k: with fail-fast, a failed matrix job cancels the unfinished jobs of
\* its matrix.
FailFastCancels(j, r, k) ==
    /\ r = "failure"
    /\ k # j
    /\ instances[j].job \in DOMAIN fail_fast
    /\ fail_fast[instances[j].job]
    /\ instances[k].job = instances[j].job
    /\ status[k] # "completed"

\* Job j completes with result r.  Of the jobs fail-fast cancels, a queued
\* one is concluded at once and a running one is cancelled: its remaining
\* steps are evaluated with the job cancelled.
CompleteJob(j, r) ==
    /\ status' = [k \in JobIds |->
          IF k = j \/ (status[k] = "queued" /\ FailFastCancels(j, r, k))
          THEN "completed" ELSE status[k]]
    /\ conclusion' = [k \in {i \in JobIds : status'[i] = "completed"} |->
          IF k = j THEN r
          ELSE IF k \in DOMAIN conclusion THEN conclusion[k] ELSE "cancelled"]
    /\ cancelled' = cancelled \cup
          {k \in DOMAIN steps : status[k] = "in_progress" /\ FailFastCancels(j, r, k)}

\* The runner evaluates the job's next step, in the listed order; the job
\* completes with its last step.
RunStep(j, exit) ==
    /\ j \in JobIds
    /\ status[j] = "in_progress"
    /\ LET outcomes == Append(steps[j], StepOutcome(j, exit)) IN
       /\ steps' = [steps EXCEPT ![j] = outcomes]
       /\ IF Len(outcomes) < Len(StepsOf(j))
          THEN UNCHANGED <<status, conclusion, cancelled>>
          ELSE CompleteJob(j, JobResult(j, outcomes))
    /\ UNCHANGED <<event, run, instances, nbVars, dbVars, cvVars>>

\* At most this many jobs of a matrix are given a runner; the others stay
\* queued.
MaxRunners == 2

ExitCodes == {0, 1}

JobStep(j) ==
    \/ StartJob(j)
    \/ \E exit \in ExitCodes : RunStep(j, exit)

\* The jobs of a matrix that get a runner: its first MaxRunners jobs.
Runnable(name) ==
    LET all == {j \in DOMAIN Jobs : Jobs[j].job = name}
    IN  {j \in all : Cardinality({k \in all : k < j}) < MaxRunners}

RunnableBuild == Runnable("build")

RunnableNotebooks == Runnable("notebooks")

Unmatrixed == {j \in DOMAIN Jobs : Jobs[j].job = "validate-notebooks-list"}

\* No job of the named matrix has been given a runner yet.
NoneStarted(name) == \A k \in DOMAIN steps : instances[k].job # name

\* Any event; of a run, the job without a matrix is followed.
Next ==
    \/ Trigger
    \/ Ignore
    \/ \E j \in Unmatrixed : JobStep(j)

Spec == Init /\ [][Next]_vars

\* The events the matrix jobs are followed for: one that passes the filter
\* and one that does not.
RunEvents ==
    {[type |-> "pull_request", branch |-> "feature/x", action |-> "opened"],
     [type |-> "push", branch |-> "feature/x", action |-> "none"]}

InitMatrix == Init /\ event \in RunEvents

\* The matrix jobs are followed; the runners of a run all go to one matrix.
NextMatrix ==
    \/ Trigger
    \/ Ignore
    \/ \E j \in RunnableBuild : NoneStarted("notebooks") /\ JobStep(j)
    \/ \E j \in RunnableNotebooks : NoneStarted("build") /\ JobStep(j)

SpecMatrix == InitMatrix /\ [][NextMatrix]_vars

(***************************************************************************)
(* Properties of the workflow run.                                         *)
(***************************************************************************)

Completed(j) == j \in JobIds /\ status[j] = "completed"

\* The jobs a runner has taken.
Started == DOMAIN steps

IsBuild(j) == instances[j].job = "build"

IsMatrixJob(j) == instances[j].job \in {"build", "notebooks"}

NotebookIds == {j \in JobIds : instances[j].job = "notebooks"}

\* The number of jobs of the run instantiated for this job name and value.
Count(job, value) ==
    Cardinality({j \in JobIds : instances[j].job = job /\ instances[j].matrix = value})

\* Job j has evaluated its step k with this outcome.
Outcome(j, k, o) == j \in Started /\ k \in DOMAIN steps[j] /\ steps[j][k] = o

\* The jobs the service has cancelled, queued or running.
Cancelling == cancelled \cup {j \in DOMAIN conclusion : conclusion[j] = "cancelled"}

\* Some other job of j's matrix has run and failed.
PeerFailed(j) ==
    \E k \in Started :
        /\ k # j
        /\ instances[k].job = instances[j].job
        /\ k \in DOMAIN conclusion
        /\ conclusion[k] = "failure"

\* C2, as amended: the build job is instantiated once for each of the Python
\* versions 3.6, 3.7 and 3.8 and a notebooks job is the only one of its
\* notebook; the matrices leave fail-fast on, so a matrix job is cancelled
\* exactly by the failure of another job of the same matrix (a queued one
\* then never starts, a running one is cancelled), never by a job
\* of the other matrix; a job that is not cancelled evaluates all its steps.
C2_FailFastWithinMatrix ==
    run = "started" =>
        /\ SelectSeq(instances, LAMBDA i : i.job = "build")
              = << [job |-> "build", matrix |-> "3.6"],
                   [job |-> "build", matrix |-> "3.7"],
                   [job |-> "build", matrix |-> "3.8"] >>
        /\ \A j \in Started :
              ~IsBuild(j) => Count(instances[j].job, instances[j].matrix) = 1
        /\ \A j \in Cancelling : PeerFailed(j)
        /\ \A k \in Started :
              IsMatrixJob(k) /\ Completed(k) /\ conclusion[k] = "failure" =>
                  \A j \in JobIds \ {k} :
                      instances[j].job = instances[k].job =>
                          /\ status[j] # "queued"
                          /\ status[j] = "in_progress" => j \in cancelled
        /\ \A j \in DOMAIN conclusion :
              conclusion[j] # "cancelled" =>
                  /\ j \notin cancelled
                  /\ Len(steps[j]) = Len(StepsOf(j))

\* C2 witness: a build job has failed, the running job of the build matrix
\* was cancelled, the queued one was concluded as cancelled without a step, and
\* no notebooks job was touched.
C2_Witness ==
    /\ run = "started"
    /\ \E f \in Started, r \in cancelled, q \in DOMAIN conclusion :
          /\ IsBuild(f) /\ Completed(f) /\ conclusion[f] = "failure"
          /\ IsBuild(r)
          /\ IsBuild(q) /\ q \notin Started /\ conclusion[q] = "cancelled"
    /\ \A n \in NotebookIds : status[n] = "queued"

\* C2 as stated: the failure of one matrix job never stops, skips or cancels
\* another matrix job.
C2_Original ==
    run = "started" =>
        ((\E k \in DOMAIN conclusion : conclusion[k] = "failure") => Cancelling = {})

\* The step of a matrix job that runs the tests (build) or the notebook
\* (notebooks).
RunnerStep == 5

\* The `if: always()` upload step that follows it.
UploadStep == 6

\* C3, as amended: a matrix job whose pytest or papermill step exits non-zero
\* never ends in success, although the later `if: always()` upload step still
\* runs: it ends in failure, unless a fail-fast cancellation reached it before
\* its last step, in which case it ends cancelled; a job ends in success only
\* if that step exited zero.
C3_ResultFollowsExitCode ==
    \A j \in Started :
        IsMatrixJob(j) /\ Completed(j) =>
            /\ Outcome(j, RunnerStep, "failure") =>
                  /\ conclusion[j] \in {"failure", "cancelled"}
                  /\ conclusion[j] = "cancelled" <=> j \in cancelled
                  /\ ~Outcome(j, UploadStep, "skipped")
            /\ conclusion[j] = "success" => Outcome(j, RunnerStep, "success")

\* C3 witness: a job whose test step failed, whose upload step then ran and
\* succeeded, and which ended in failure.
C3_Witness ==
    \E j \in Started :
        /\ IsMatrixJob(j)
        /\ Completed(j)
        /\ Outcome(j, RunnerStep, "failure")
        /\ Outcome(j, UploadStep, "success")
        /\ conclusion[j] = "failure"

\* C3 as stated: the job ends in failure whenever its pytest or papermill
\* step exits non-zero, and in success only if it exited zero.
C3_Original ==
    \A j \in Started :
        IsMatrixJob(j) /\ Completed(j) =>
            /\ Outcome(j, RunnerStep, "failure") => conclusion[j] = "failure"
            /\ conclusion[j] = "success" => Outcome(j, RunnerStep, "success")

\* C4, as amended: a run is started by a push only when the pushed branch is
\* develop or master, and by a pull-request event of activity type opened,
\* synchronize or reopened (the trigger lists no types) regardless of
\* branch; no other event starts a run, pull-request events of another
\* activity type included.
C4_Trigger ==
    run # "pending" =>
        (run = "started" <=>
            \/ event.type = "push" /\ event.branch \in {"develop", "master"}
            \/ event.type = "pull_request"
                 /\ event.action \in {"opened", "synchronize", "reopened"})

\* C4 witness: a pull-request event on a branch other than develop and master
\* has started a run.
C4_Witness ==
    /\ run = "started"
    /\ event.type = "pull_request"
    /\ event.branch = "feature/x"
    /\ instances # <<>>

\* C4 as stated: every pull-request event starts a run.
C4_Original ==
    run # "pending" =>
        (run = "started" <=>
            \/ event.type = "push" /\ event.branch \in {"develop", "master"}
            \/ event.type = "pull_request")

\* The build job's steps in the order the claim lists them.
BuildOrder ==
    << "actions/checkout@v2", "Setup Python", "Restore cache",
       "Install dependencies", "Run pytest tests",
       "Upload pytest test results", "Upload coverage to Codecov" >>

\* C5: a build job evaluates its steps in the listed order; its "Upload
\* pytest test results" step runs in every started job, whether or not an
\* earlier step failed; its "Upload coverage to Codecov" step runs only if
\* every earlier step succeeded.
C5_BuildSteps ==
    \A j \in Started :
        IsBuild(j) =>
            /\ Len(steps[j]) <= Len(BuildOrder)
            /\ \A k \in DOMAIN steps[j] : StepsOf(j)[k].name = BuildOrder[k]
            /\ Completed(j) => Len(steps[j]) = Len(BuildOrder)
            /\ \A k \in DOMAIN steps[j] :
                  /\ BuildOrder[k] = "Upload pytest test results"
                        => steps[j][k] # "skipped"
                  /\ BuildOrder[k] = "Upload coverage to Codecov"
                        => (steps[j][k] # "skipped"
                                <=> (j \notin cancelled
                                     /\ \A i \in 1..(k - 1) : steps[j][i] = "success"))

\* C5 witness: a build job whose install step failed, whose pytest step was
\* therefore skipped, whose upload of the test results ran all the same and
\* whose upload of the coverage was skipped.
C5_Witness ==
    \E j \in Started :
        /\ IsBuild(j)
        /\ Completed(j)
        /\ steps[j] = << "success", "success", "success", "failure",
                         "skipped", "success", "skipped" >>

\* Whether a notebook needs a Neo4j database: those under
\* demos/connector/neo4j/ and demos/basics/loading-saving-neo4j.ipynb.
RequiresNeo4j(p) ==
    \/ Len(p) > 3 /\ p[1] = "demos" /\ p[2] = "connector" /\ p[3] = "neo4j"
    \/ p = << "demos", "basics", "loading-saving-neo4j.ipynb" >>

\* C6: the notebooks job is instantiated exactly once for each entry of the
\* notebook list that is not in the exclude list and never for an excluded
\* entry; every exclude entry names a listed notebook; every listed
\* notebook that requires Neo4j is excluded, so no job runs a Neo4j notebook.
C6_NotebookMatrix ==
    run = "started" =>
        /\ \A i \in DOMAIN notebook :
              Count("notebooks", notebook[i]) =
                  IF notebook[i] \in Range(exclude) THEN 0 ELSE 1
        /\ \A j \in NotebookIds : instances[j].matrix \in Range(notebook)
        /\ \A i \in DOMAIN exclude : exclude[i] \in Range(notebook)
        /\ \A i \in DOMAIN notebook :
              RequiresNeo4j(notebook[i]) => notebook[i] \in Range(exclude)
        /\ Cardinality({i \in DOMAIN notebook : RequiresNeo4j(notebook[i])}) = 5
        /\ \A j \in NotebookIds : ~RequiresNeo4j(instances[j].matrix)

\* C6 witness: a run has been created; it holds one notebooks job for each of
\* the notebooks the exclusions leave, one of them for the NetworkX loading
\* demo and none for the Neo4j loading demo.
C6_Witness ==
    /\ run = "started"
    /\ Cardinality(NotebookIds) = Len(notebook) - Len(exclude)
    /\ Count("notebooks", << "demos", "basics", "loading-networkx.ipynb" >>) = 1
    /\ Count("notebooks", << "demos", "connector", "neo4j", "load-cora-into-neo4j.ipynb" >>) = 0

(***************************************************************************)
(* Part II.  Loading data into StellarGraph.                               *)
(*                                                                         *)
(* Python values are modelled as follows.  A list or an index is a         *)
(* sequence; a NumPy array is a record tagged "ndarray" holding its rows;  *)
(* a DataFrame holds its column names, its columns and its index; a dict   *)
(* is a function from its keys.  Keyword arguments are the fields of an    *)
(* argument record, an omitted keyword being an absent field.  Feature     *)
(* values are written in hundredths (0.3 is 30) to stay within the         *)
(* integers; edge weights are whole numbers and are written as they are.   *)
(***************************************************************************)

(***************************************************************************)
(* The library the notebooks call.  Its code is not part of the sources    *)
(* at hand; these operators follow its documented behaviour as the         *)
(* notebooks describe and exercise it.                                     *)
(***************************************************************************)
Has(args, k) == k \in DOMAIN args

Arg(args, k, default) == IF k \in DOMAIN args THEN args[k] ELSE default

Raise(msg) == [kind |-> "error", error |-> msg]

Raised(x) == x.kind = "error"

\* A dict without keys; also the attributes of a node or edge that has none.
dict == [k \in {} |-> k]

\* d.update(new)
update(d, new) ==
    [k \in DOMAIN d \cup DOMAIN new |-> IF k \in DOMAIN new THEN new[k] ELSE d[k]]

\* A type name that is not the default one.
default_type_other == "other"

\* The name of the node type and of the edge type of a graph that names neither.
default_type == "default"

\* np.array(rows)
np_array(rows) == [kind |-> "ndarray", values |-> rows]

\* pd.DataFrame(data) with the default index 0..n-1; names gives the column order.
pd_DataFrame(names, data) ==
    [kind |-> "DataFrame", columns |-> names, data |-> data,
     index |-> [i \in DOMAIN data[names[1]] |-> i - 1]]

\* The IDs given to the rows when no index is supplied: 1 .. n.
RangeIndexFromOne(n) == [i \in 1..n |-> i]

\* The IDs given to the rows when no index is supplied: 0 .. n-1.
RangeIndex(n) == [i \in 1..n |-> i - 1]

\* IndexedArray(values=None, index=None): values default to one empty row per
\* index element, the index defaults to 0..n-1, and the two must agree in length.
IndexedArray(args) ==
    LET values == IF Has(args, "values") THEN args.values.values
                  ELSE IF Has(args, "index") THEN [i \in DOMAIN args.index |-> <<>>]
                  ELSE <<>>
        index == IF Has(args, "index") THEN args.index ELSE RangeIndex(Len(values))
    IN  IF Len(index) # Len(values)
        THEN Raise("ValueError: index and values differ in length")
        ELSE [kind |-> "IndexedArray", values |-> values, index |-> index]

\* The node argument as a dict from node type to IndexedArray.
convert_nodes(nodes, node_type_default) ==
    CASE nodes.kind = "ndarray" ->
            [t \in {node_type_default} |-> IndexedArray([values |-> nodes])]
      [] nodes.kind = "IndexedArray" -> [t \in {node_type_default} |-> nodes]
      [] nodes.kind = "error" -> [t \in {node_type_default} |-> nodes]
      [] nodes.kind = "dict" -> nodes.items

\* Every row of every type: <<type, position in that type's index>>.
rows_of(nodes) ==
    UNION {{<<t, i>> : i \in DOMAIN nodes[t].index} : t \in DOMAIN nodes}

id_of(nodes, row) == nodes[row[1]].index[row[2]]

\* Node IDs unique within each type only.
unique_ids_within_type(nodes) ==
    \A r1, r2 \in rows_of(nodes) :
        (r1[1] = r2[1] /\ id_of(nodes, r1) = id_of(nodes, r2)) => r1 = r2

\* Node IDs unique across all types.
unique_ids(nodes) ==
    \A r1, r2 \in rows_of(nodes) : id_of(nodes, r1) = id_of(nodes, r2) => r1 = r2

\* The edges of an edge DataFrame: all of the default edge type, with weight 1
\* unless the DataFrame has a weight column.
convert_edges(edges, edge_type_default) ==
    [i \in DOMAIN edges.data.source |->
        [source |-> edges.data.source[i],
         target |-> edges.data.target[i],
         type |-> edge_type_default,
         weight |-> IF Has(edges.data, "weight") THEN edges.data.weight[i] ELSE 1]]

\* StellarGraph(nodes, edges, node_type_default="default", edge_type_default="default")
StellarGraph(args) ==
    LET node_type_default == Arg(args, "node_type_default", default_type)
        edge_type_default == Arg(args, "edge_type_default", default_type)
        nodes == convert_nodes(args.nodes, node_type_default)
        edges == convert_edges(args.edges, edge_type_default)
        failed == {t \in DOMAIN nodes : Raised(nodes[t])}
        ids == {id_of(nodes, r) : r \in rows_of(nodes)}
        row(n) == CHOOSE r \in rows_of(nodes) : id_of(nodes, r) = n
    IN  IF failed # {}
        THEN nodes[CHOOSE t \in failed : TRUE]
        ELSE IF ~unique_ids(nodes)
        THEN Raise("ValueError: node IDs are not unique")
        ELSE IF \E i \in DOMAIN edges : edges[i].source \notin ids \/ edges[i].target \notin ids
        THEN Raise("ValueError: edges refer to unknown nodes")
        ELSE [kind |-> "StellarGraph",
              node_types |-> DOMAIN nodes,
              edge_types |-> {edge_type_default},
              node_type |-> [n \in ids |-> row(n)[1]],
              node_features |-> [n \in ids |-> nodes[row(n)[1]].values[row(n)[2]]],
              edges |-> edges]

\* nx.Graph(), nx.DiGraph(), nx.MultiGraph() and nx.MultiDiGraph(): nodes in
\* insertion order, their attributes, and the edges in insertion order.
nx_Graph == [class |-> "Graph", nodes |-> <<>>, attr |-> dict, edges |-> <<>>]

nx_DiGraph == [class |-> "DiGraph", nodes |-> <<>>, attr |-> dict, edges |-> <<>>]

nx_MultiGraph == [class |-> "MultiGraph", nodes |-> <<>>, attr |-> dict, edges |-> <<>>]

nx_MultiDiGraph == [class |-> "MultiDiGraph", nodes |-> <<>>, attr |-> dict, edges |-> <<>>]

\* G.is_directed()
is_directed(G) == G.class \in {"DiGraph", "MultiDiGraph"}

\* G.is_multigraph()
is_multigraph(G) == G.class \in {"MultiGraph", "MultiDiGraph"}

add_node(G, n) ==
    IF n \in Range(G.nodes) THEN G
    ELSE [G EXCEPT !.nodes = Append(@, n),
                   !.attr = [x \in DOMAIN @ \cup {n} |-> IF x = n THEN dict ELSE @[x]]]

\* Whether edge e of G joins u and v (in either direction unless G is directed).
joins(G, e, u, v) ==
    \/ e.u = u /\ e.v = v
    \/ ~is_directed(G) /\ e.u = v /\ e.v = u

\* G.add_edge(u, v, **data): adds the missing end points, then adds the edge,
\* or, unless G is a multigraph, updates its attributes if the two nodes are
\* already joined.
add_edge(G, u, v, data) ==
    LET H == add_node(add_node(G, u), v) IN
    IF ~is_multigraph(H) /\ \E i \in DOMAIN H.edges : joins(H, H.edges[i], u, v)
    THEN [H EXCEPT !.edges = [i \in DOMAIN @ |->
                                 IF joins(H, @[i], u, v)
                                 THEN [@[i] EXCEPT !.data = update(@, data)]
                                 ELSE @[i]]]
    ELSE [H EXCEPT !.edges = Append(@, [u |-> u, v |-> v, data |-> data])]

\* G.nodes[n][name] = value
set_node_attribute(G, n, name, value) ==
    [G EXCEPT !.attr[n] = update(@, [k \in {name} |-> value])]

\* nx.set_node_attributes(G, values, name)
set_node_attributes(G, values, name) ==
    [G EXCEPT !.attr = [n \in DOMAIN @ |->
                           IF n \in DOMAIN values
                           THEN update(@[n], [k \in {name} |-> values[n]])
                           ELSE @[n]]]

position(G, n) == CHOOSE i \in DOMAIN G.nodes : G.nodes[i] = n

neighbour(e, n) == IF e.u = n THEN e.v ELSE e.u

\* The edges es at node n, neighbour by neighbour in the order in which the
\* neighbours were joined to n.
RECURSIVE by_neighbour(_, _)
by_neighbour(es, n) ==
    IF es = <<>> THEN <<>>
    ELSE SelectSeq(es, LAMBDA e : neighbour(e, n) = neighbour(es[1], n))
         \o by_neighbour(SelectSeq(es, LAMBDA e : neighbour(e, n) # neighbour(es[1], n)), n)

\* The edges G.edges(data=True) reports for its p-th node: a directed graph
\* reports the edges leaving the node; an undirected graph reports the edges
\* to the neighbours that were not reported from an earlier node, with the
\* reporting node first.
edges_at(G, p) ==
    LET n == G.nodes[p]
        here == by_neighbour(SelectSeq(G.edges, LAMBDA e :
                    IF is_directed(G) THEN e.u = n
                    ELSE \/ e.u = n /\ position(G, e.v) >= p
                         \/ e.v = n /\ position(G, e.u) > p), n)
    IN  [i \in DOMAIN here |->
            [source |-> n,
             target |-> IF here[i].u = n THEN here[i].v ELSE here[i].u,
             data |-> here[i].data]]

RECURSIVE edges_from(_, _)
edges_from(G, p) ==
    IF p > Len(G.nodes) THEN <<>> ELSE edges_at(G, p) \o edges_from(G, p + 1)

\* G.edges(data=True)
nx_edges(G) == edges_from(G, 1)

\* The attribute from_networkx reads node types from with node_type_attr="type".
node_type_attr_type == "type"

\* The attribute from_networkx reads node types from unless told otherwise.
node_type_attr_default == "label"

edge_type_attr_default == "label"

\* The attribute from_networkx reads edge weights from with edge_weight_attr="distance".
edge_weight_attr_distance == "distance"

\* The attribute from_networkx reads edge weights from unless told otherwise.
edge_weight_attr_default == "weight"

\* pd.DataFrame(data, index=index)
pd_DataFrame_index(names, data, index) ==
    [kind |-> "DataFrame", columns |-> names, data |-> data, index |-> index]

\* Row i of a DataFrame, in column order.
row_of(df, i) == [c \in DOMAIN df.columns |-> df.data[df.columns[c]][i]]

\* node_features="<attribute name>"
attribute(name) == [kind |-> "str", value |-> name]

zeros(n) == [i \in 1..n |-> 0]

\* Features read from the node attribute name: the nodes of a type that carry
\* it must agree on its length, and those that do not get zeros.
features_from_attributes(G, node_type, name) ==
    LET length(n) == Len(G.attr[n][name])
        having(t) == {n \in DOMAIN node_type : node_type[n] = t /\ name \in DOMAIN G.attr[n]}
        size(t) == IF having(t) = {} THEN 0 ELSE length(CHOOSE n \in having(t) : TRUE)
    IN  IF \E t \in Range(node_type) : \E n1, n2 \in having(t) : length(n1) # length(n2)
        THEN Raise("ValueError: inconsistent feature sizes")
        ELSE [kind |-> "features",
              of |-> [n \in DOMAIN node_type |->
                        IF name \in DOMAIN G.attr[n] THEN G.attr[n][name]
                        ELSE zeros(size(node_type[n]))]]

\* Features read from a dict from node type to DataFrame: the index of a
\* DataFrame must be exactly the nodes of its type, and the nodes of a type
\* without DataFrame have no features.
features_from_node_data(node_type, data) ==
    LET ids(t) == {n \in DOMAIN node_type : node_type[n] = t}
        given == DOMAIN data \cap Range(node_type)
        at(df, n) == CHOOSE i \in DOMAIN df.index : df.index[i] = n
    IN  IF \E t \in given : Range(data[t].index) # ids(t)
        THEN Raise("ValueError: expected feature node IDs to exactly match nodes in graph")
        ELSE IF \E t \in given : \E i, j \in DOMAIN data[t].index :
                    i # j /\ data[t].index[i] = data[t].index[j]
        THEN Raise("ValueError: node IDs are not unique")
        ELSE [kind |-> "features",
              of |-> [n \in DOMAIN node_type |->
                        IF node_type[n] \in given
                        THEN row_of(data[node_type[n]], at(data[node_type[n]], n))
                        ELSE <<>>]]

\* The node_features argument of from_networkx: nothing, the name of a node
\* attribute, one DataFrame (for a graph of one node type) or a dict from
\* node type to DataFrame.
node_features_of(G, node_type, node_type_default, args) ==
    IF ~Has(args, "node_features")
    THEN [kind |-> "features", of |-> [n \in DOMAIN node_type |-> <<>>]]
    ELSE CASE args.node_features.kind = "str" ->
                features_from_attributes(G, node_type, args.node_features.value)
           [] args.node_features.kind = "dict" ->
                features_from_node_data(node_type, args.node_features.items)
           [] args.node_features.kind = "DataFrame" ->
                IF Cardinality(Range(node_type)) > 1
                THEN Raise("TypeError: more than one node type, pass node features as a dictionary")
                ELSE features_from_node_data(node_type,
                        [t \in Range(node_type) \cup {node_type_default} |-> args.node_features])

\* StellarGraph.from_networkx(graph, edge_weight_attr="weight",
\*     node_type_attr="label", edge_type_attr="label",
\*     node_type_default="default", edge_type_default="default",
\*     node_features=None)
from_networkx(args) ==
    LET G == args.graph
        edge_weight_attr == Arg(args, "edge_weight_attr", edge_weight_attr_default)
        node_type_attr == Arg(args, "node_type_attr", node_type_attr_default)
        edge_type_attr == Arg(args, "edge_type_attr", edge_type_attr_default)
        node_type_default == Arg(args, "node_type_default", default_type)
        edge_type_default == Arg(args, "edge_type_default", default_type)
        node_type == [n \in Range(G.nodes) |-> Arg(G.attr[n], node_type_attr, node_type_default)]
        found == nx_edges(G)
        edges == [i \in DOMAIN found |->
                    [source |-> found[i].source,
                     target |-> found[i].target,
                     type |-> Arg(found[i].data, edge_type_attr, edge_type_default),
                     weight |-> Arg(found[i].data, edge_weight_attr, 1)]]
        features == node_features_of(G, node_type, node_type_default, args)
    IN  IF Raised(features) THEN features
        ELSE [kind |-> IF is_directed(G) THEN "StellarDiGraph" ELSE "StellarGraph",
              node_types |-> Range(node_type),
              edge_types |-> {edges[i].type : i \in DOMAIN edges},
              node_type |-> node_type,
              node_features |-> features.of,
              edges |-> edges]

\* The edge type triples info() lists: source node type, edge type, target node type.
triple(graph, e) == <<graph.node_type[e.source], e.type, graph.node_type[e.target]>>

\* What info() prints on the "Weights:" line of a triple: "all 1 (default)"
\* is [all_1 |-> TRUE], "range=[lo, hi]" gives the two ends.
weights_info(ws) ==
    LET lo == CHOOSE w \in ws : \A x \in ws : w <= x
        hi == CHOOSE w \in ws : \A x \in ws : w >= x
    IN  [all_1 |-> ws = {1}, range |-> <<lo, hi>>]

\* What info() prints on the "Features:" line of a node type: the length of
\* the feature vector of its nodes (the first dimension of a feature tensor),
\* 0 standing for "none".
features_info(graph) ==
    [t \in graph.node_types |->
        LET ns == {n \in DOMAIN graph.node_type : graph.node_type[n] = t} IN
        IF ns = {} THEN 0 ELSE Len(graph.node_features[CHOOSE n \in ns : TRUE])]

\* graph.info(): the kind of graph, the number of nodes and of edges, the number
\* of nodes of each type, the number of edges of each triple, and their weights.
info(graph) ==
    LET E == graph.edges
        triples == {triple(graph, E[i]) : i \in DOMAIN E}
        matching(tr) == {i \in DOMAIN E : triple(graph, E[i]) = tr}
    IN  [kind |-> graph.kind,
         nodes |-> Cardinality(DOMAIN graph.node_type),
         edges |-> Len(E),
         node_types |-> [t \in graph.node_types |->
                            Cardinality({n \in DOMAIN graph.node_type : graph.node_type[n] = t})],
         edge_types |-> [tr \in triples |-> Cardinality(matching(tr))],
         weights |-> [tr \in triples |-> weights_info({E[i].weight : i \in matching(tr)})]]

(***************************************************************************)
(* The cells of the notebook "Loading data into StellarGraph from NumPy".  *)
(* A cell that builds a graph is the call it makes, named after the        *)
(* variable it assigns; the kernel below runs it.                          *)
(***************************************************************************)
Call(cell, fn, args) == [cell |-> cell, fn |-> fn, args |-> args]

square_numeric_edges ==
    pd_DataFrame(<<"source", "target">>,
                 [source |-> <<0, 1, 2, 3, 0>>, target |-> <<1, 2, 3, 0, 2>>])

feature_array == np_array(<< <<100, -20>>, <<200, 30>>, <<300, 0>>, <<400, -50>> >>)

square_numeric ==
    Call("square_numeric", "StellarGraph",
         [nodes |-> feature_array, edges |-> square_numeric_edges])

square_numeric_named ==
    Call("square_numeric_named", "StellarGraph",
         [nodes |-> feature_array, edges |-> square_numeric_edges,
          node_type_default |-> "corner", edge_type_default |-> "line"])

square_edges ==
    pd_DataFrame(<<"source", "target">>,
                 [source |-> <<"a", "b", "c", "d", "a">>,
                  target |-> <<"b", "c", "d", "a", "c">>])

indexed_array == IndexedArray([values |-> feature_array, index |-> <<"a", "b", "c", "d">>])

square_named ==
    Call("square_named", "StellarGraph",
         [nodes |-> indexed_array, edges |-> square_edges,
          node_type_default |-> "corner", edge_type_default |-> "line"])

feature_tensors ==
    np_array(<< << <<100, -20>>, <<100, 10>>, <<90, 10>> >>,
                << <<200, 30>>, <<190, 31>>, <<210, 32>> >>,
                << <<300, 0>>, <<1000, 0>>, <<300, 0>> >>,
                << <<400, -50>>, <<0, -100>>, <<100, -300>> >> >>)

indexed_tensors == IndexedArray([values |-> feature_tensors, index |-> <<"a", "b", "c", "d">>])

square_tensors ==
    Call("square_tensors", "StellarGraph",
         [nodes |-> indexed_tensors, edges |-> square_edges,
          node_type_default |-> "corner", edge_type_default |-> "line"])

\* An array for "a" that does carry features.
square_foo_with_features ==
    IndexedArray([values |-> np_array(<< <<100, -20>> >>), index |-> <<"a">>])

square_foo == IndexedArray([index |-> <<"a">>])

bar_features == np_array(<< <<40, 10000>>, <<10, 20000>>, <<90, 30000>> >>)

square_bar == IndexedArray([values |-> bar_features, index |-> <<"b", "c", "d">>])

square_foo_and_bar ==
    Call("square_foo_and_bar", "StellarGraph",
         [nodes |-> [kind |-> "dict", items |-> [foo |-> square_foo, bar |-> square_bar]],
          edges |-> square_edges])

square_foo_overlap == IndexedArray([index |-> <<"b">>])

\* The call of the cell "Uncomment to see the error".
square_foo_overlap_and_bar ==
    Call("square_foo_overlap_and_bar", "StellarGraph",
         [nodes |-> [kind |-> "dict", items |-> [foo |-> square_foo_overlap, bar |-> square_bar]],
          edges |-> square_edges])

foo_tensors == np_array(<< << <<100, -20>>, <<100, 10>>, <<90, 10>> >> >>)

square_foo_tensors == IndexedArray([values |-> foo_tensors, index |-> <<"a">>])

square_foo_tensors_and_bar ==
    Call("square_foo_tensors_and_bar", "StellarGraph",
         [nodes |-> [kind |-> "dict", items |-> [foo |-> square_foo_tensors, bar |-> square_bar]],
          edges |-> square_edges])

(***************************************************************************)
(* What the notebook recorded info() to print for these graphs.            *)
(***************************************************************************)
all_1 == [all_1 |-> TRUE, range |-> <<1, 1>>]

square_numeric_info ==
    [kind |-> "StellarGraph", nodes |-> 4, edges |-> 5,
     node_types |-> [t \in {"default"} |-> 4],
     edge_types |-> [tr \in {<<"default", "default", "default">>} |-> 5],
     weights |-> [tr \in {<<"default", "default", "default">>} |-> all_1]]

square_numeric_named_info ==
    [kind |-> "StellarGraph", nodes |-> 4, edges |-> 5,
     node_types |-> [t \in {"corner"} |-> 4],
     edge_types |-> [tr \in {<<"corner", "line", "corner">>} |-> 5],
     weights |-> [tr \in {<<"corner", "line", "corner">>} |-> all_1]]

square_foo_and_bar_info ==
    [kind |-> "StellarGraph", nodes |-> 4, edges |-> 5,
     node_types |-> [bar |-> 3, foo |-> 1],
     edge_types |-> [tr \in {<<"foo", "default", "bar">>, <<"bar", "default", "bar">>,
                             <<"bar", "default", "foo">>} |->
                        IF tr = <<"bar", "default", "foo">> THEN 1 ELSE 2],
     weights |-> [tr \in {<<"foo", "default", "bar">>, <<"bar", "default", "bar">>,
                          <<"bar", "default", "foo">>} |-> all_1]]

\* The "Features:" lines recorded for square_foo_and_bar.
square_foo_and_bar_features == [bar |-> 2, foo |-> 0]

(***************************************************************************)
(* The cells of the notebook "Loading data into StellarGraph from          *)
(* NetworkX".                                                              *)
(***************************************************************************)
g ==
    add_edge(add_edge(add_edge(add_edge(add_edge(nx_Graph,
        "a", "b", dict), "b", "c", dict), "c", "d", dict), "d", "a", dict), "a", "c", dict)

square == Call("square", "from_networkx", [graph |-> g])

square_named_networkx ==
    Call("square_named_networkx", "from_networkx",
         [graph |-> g, node_type_default |-> "paper", edge_type_default |-> "cites"])

g_weighted ==
    add_edge(add_edge(add_edge(add_edge(add_edge(nx_Graph,
        "a", "b", [weight |-> 1]), "b", "c", [weight |-> 2]), "c", "d", [weight |-> 3]),
        "d", "a", [weight |-> 4]), "a", "c", [weight |-> 5])

square_weighted == Call("square_weighted", "from_networkx", [graph |-> g_weighted])

g_weighted_other ==
    add_edge(add_edge(add_edge(add_edge(add_edge(nx_Graph,
        "a", "b", [distance |-> 1]), "b", "c", [distance |-> 2]), "c", "d", [distance |-> 3]),
        "d", "a", [distance |-> 4]), "a", "c", [distance |-> 5])

\* The cell passes g_weighted, not the g_weighted_other it has just built.
square_weighted_other ==
    Call("square_weighted_other", "from_networkx",
         [graph |-> g_weighted, edge_weight_attr |-> "distance"])

\* The same five edges without direction.
g_directed_undirected ==
    add_edge(add_edge(add_edge(add_edge(add_edge(nx_Graph,
        "a", "b", dict), "b", "c", dict), "c", "d", dict), "d", "a", dict), "a", "c", dict)

g_directed ==
    add_edge(add_edge(add_edge(add_edge(add_edge(nx_DiGraph,
        "a", "b", dict), "b", "c", dict), "c", "d", dict), "d", "a", dict), "a", "c", dict)

square_directed == Call("square_directed", "from_networkx", [graph |-> g_directed])

g_foo_bar == set_node_attributes(g, [a |-> "foo", b |-> "bar", c |-> "bar", d |-> "bar"], "label")

square_foo_bar == Call("square_foo_bar", "from_networkx", [graph |-> g_foo_bar])

g_foo == set_node_attribute(g, "a", "label", "foo")

square_foo_bar_default ==
    Call("square_foo_bar_default", "from_networkx", [graph |-> g_foo, node_type_default |-> "bar"])

g_foo_other == set_node_attribute(g, "a", "type", "foo")

\* The cell passes g_foo, not the g_foo_other it has just built.
square_foo_bar_other ==
    Call("square_foo_bar_other", "from_networkx",
         [graph |-> g_foo, node_type_default |-> "bar", node_type_attr |-> "type"])

g_orientation ==
    add_edge(add_edge(add_edge(add_edge(add_edge(nx_Graph,
        "a", "b", [label |-> "horizontal"]), "b", "c", [label |-> "vertical"]),
        "c", "d", [label |-> "horizontal"]), "d", "a", [label |-> "vertical"]),
        "a", "c", [label |-> "diagonal"])

square_orientation == Call("square_orientation", "from_networkx", [graph |-> g_orientation])

\* ord(node_id) of the node IDs in use.
ord(node_id) ==
    CASE node_id = "a" -> 97 [] node_id = "b" -> 98 [] node_id = "c" -> 99 [] node_id = "d" -> 100

\* len(node_id): the node IDs are single letters.
len(node_id) == 1

compute_features(node_id) == <<100 * ord(node_id), 100 * len(node_id)>>

g_feature_attr ==
    set_node_attributes(g, [node_id \in Range(g.nodes) |-> compute_features(node_id)], "feature")

square_feature_attr ==
    Call("square_feature_attr", "from_networkx",
         [graph |-> g_feature_attr, node_features |-> attribute("feature")])

features ==
    pd_DataFrame_index(<<"x", "y">>,
                       [x |-> <<100, 200, 300, 400>>, y |-> <<-20, 30, 0, -50>>],
                       <<"a", "b", "c", "d">>)

square_feature_dataframe ==
    Call("square_feature_dataframe", "from_networkx",
         [graph |-> g_feature_attr, node_features |-> features])

g_foo_bar_attr ==
    set_node_attributes(g_foo_bar,
        [a |-> <<>>, b |-> <<40, 10000>>, c |-> <<10, 20000>>, d |-> <<90, 30000>>], "feature")

square_foo_bar_features_attr ==
    Call("square_foo_bar_features_attr", "from_networkx",
         [graph |-> g_foo_bar_attr, node_features |-> attribute("feature")])

\* Features for "b" and "c" only.
features_bar_without_d ==
    pd_DataFrame_index(<<"y", "z">>, [y |-> <<40, 10>>, z |-> <<10000, 20000>>], <<"b", "c">>)

features_bar ==
    pd_DataFrame_index(<<"y", "z">>,
                       [y |-> <<40, 10, 90>>, z |-> <<10000, 20000, 30000>>],
                       <<"b", "c", "d">>)

square_foo_bar_features_dataframe ==
    Call("square_foo_bar_features_dataframe", "from_networkx",
         [graph |-> g_foo_bar, node_features |-> [kind |-> "dict", items |-> [bar |-> features_bar]]])

g_everything ==
    set_node_attributes(g_orientation, [a |-> "foo", b |-> "bar", c |-> "bar", d |-> "bar"], "label")

stellar_everything ==
    Call("stellar_everything", "from_networkx",
         [graph |-> g_everything, node_features |-> [kind |-> "dict", items |-> [bar |-> features_bar]]])

(***************************************************************************)
(* What the notebook recorded info() to print for these graphs.            *)
(***************************************************************************)
square_info ==
    [kind |-> "StellarGraph", nodes |-> 4, edges |-> 5,
     node_types |-> [t \in {"default"} |-> 4],
     edge_types |-> [tr \in {<<"default", "default", "default">>} |-> 5],
     weights |-> [tr \in {<<"default", "default", "default">>} |-> all_1]]

square_named_networkx_info ==
    [kind |-> "StellarGraph", nodes |-> 4, edges |-> 5,
     node_types |-> [t \in {"paper"} |-> 4],
     edge_types |-> [tr \in {<<"paper", "cites", "paper">>} |-> 5],
     weights |-> [tr \in {<<"paper", "cites", "paper">>} |-> all_1]]

square_weighted_info ==
    [kind |-> "StellarGraph", nodes |-> 4, edges |-> 5,
     node_types |-> [t \in {"default"} |-> 4],
     edge_types |-> [tr \in {<<"default", "default", "default">>} |-> 5],
     weights |-> [tr \in {<<"default", "default", "default">>} |->
                     [all_1 |-> FALSE, range |-> <<1, 5>>]]]

square_directed_info ==
    [kind |-> "StellarDiGraph", nodes |-> 4, edges |-> 5,
     node_types |-> [t \in {"default"} |-> 4],
     edge_types |-> [tr \in {<<"default", "default", "default">>} |-> 5],
     weights |-> [tr \in {<<"default", "default", "default">>} |-> all_1]]

\* An output that lists one edge fewer than the five it reports.
square_foo_bar_info_miscounted ==
    [kind |-> "StellarGraph", nodes |-> 4, edges |-> 5,
     node_types |-> [bar |-> 3, foo |-> 1],
     edge_types |-> [tr \in {<<"foo", "default", "bar">>, <<"bar", "default", "bar">>} |-> 2],
     weights |-> [tr \in {<<"foo", "default", "bar">>, <<"bar", "default", "bar">>} |-> all_1]]

square_foo_bar_info ==
    [kind |-> "StellarGraph", nodes |-> 4, edges |-> 5,
     node_types |-> [bar |-> 3, foo |-> 1],
     edge_types |-> [tr \in {<<"foo", "default", "bar">>, <<"bar", "default", "bar">>} |->
                        IF tr = <<"foo", "default", "bar">> THEN 3 ELSE 2],
     weights |-> [tr \in {<<"foo", "default", "bar">>, <<"bar", "default", "bar">>} |-> all_1]]

square_foo_bar_default_info == square_foo_bar_info

square_foo_bar_other_info ==
    [kind |-> "StellarGraph", nodes |-> 4, edges |-> 5,
     node_types |-> [t \in {"bar"} |-> 4],
     edge_types |-> [tr \in {<<"bar", "default", "bar">>} |-> 5],
     weights |-> [tr \in {<<"bar", "default", "bar">>} |-> all_1]]

\* The "Features:" lines recorded for square_feature_attr and square_feature_dataframe.
square_feature_features == [t \in {"default"} |-> 2]

\* The "Features:" lines recorded for square_foo_bar_features_attr,
\* square_foo_bar_features_dataframe and stellar_everything.
square_foo_bar_features == [bar |-> 2, foo |-> 0]

stellar_everything_info ==
    [kind |-> "StellarGraph", nodes |-> 4, edges |-> 5,
     node_types |-> [bar |-> 3, foo |-> 1],
     edge_types |-> [tr \in {<<"foo", "vertical", "bar">>, <<"foo", "horizontal", "bar">>,
                             <<"foo", "diagonal", "bar">>, <<"bar", "vertical", "bar">>,
                             <<"bar", "horizontal", "bar">>} |-> 1],
     weights |-> [tr \in {<<"foo", "vertical", "bar">>, <<"foo", "horizontal", "bar">>,
                          <<"foo", "diagonal", "bar">>, <<"bar", "vertical", "bar">>,
                          <<"bar", "horizontal", "bar">>} |-> all_1]]

square_orientation_info ==
    [kind |-> "StellarGraph", nodes |-> 4, edges |-> 5,
     node_types |-> [t \in {"default"} |-> 4],
     edge_types |-> [tr \in {<<"default", "vertical", "default">>,
                             <<"default", "horizontal", "default">>,
                             <<"default", "diagonal", "default">>} |->
                        IF tr = <<"default", "diagonal", "default">> THEN 1 ELSE 2],
     weights |-> [tr \in {<<"default", "vertical", "default">>,
                          <<"default", "horizontal", "default">>,
                          <<"default", "diagonal", "default">>} |-> all_1]]

(***************************************************************************)
(* The notebook kernel: a cell's call is run once and returns a value or   *)
(* raises.  The calls are those of the two notebooks, and calls of the     *)
(* same forms on small inputs.                                             *)
(***************************************************************************)
NotebookCalls ==
    <<square_numeric, square_numeric_named, square_named, square_tensors,
      square_foo_and_bar, square_foo_overlap_and_bar, square_foo_tensors_and_bar,
      square, square_named_networkx, square_weighted, square_weighted_other,
      square_directed, square_foo_bar, square_foo_bar_default, square_foo_bar_other,
      square_orientation, square_feature_attr, square_feature_dataframe,
      square_foo_bar_features_attr, square_foo_bar_features_dataframe, stellar_everything>>

MaxIndex == 2
MaxRows == 2
MaxEdges == 1

\* All sequences over S of length at most n.
SeqUpTo(S, n) == UNION {[1..k -> S] : k \in 0..n}

Ids == {"a", "b", "c"}

FeatureRows == {<<100>>, <<200>>}

\* The keyword arguments K of given are passed along with args.
Passing(args, given, K) ==
    [k \in DOMAIN args \cup K |-> IF k \in K THEN given[k] ELSE args[k]]

EdgeFrame(pairs) ==
    [kind |-> "DataFrame", columns |-> <<"source", "target">>,
     data |-> [source |-> [i \in DOMAIN pairs |-> pairs[i][1]],
               target |-> [i \in DOMAIN pairs |-> pairs[i][2]]],
     index |-> RangeIndex(Len(pairs))]

Defaults == [node_type_default |-> "corner", edge_type_default |-> "line"]

\* StellarGraph(<array>, <edges>, ...)
ArrayCall(rows, pairs, K) ==
    Call("array", "StellarGraph",
         Passing([nodes |-> np_array(rows), edges |-> EdgeFrame(pairs)], Defaults, K))

\* IndexedArray(values, index), IndexedArray(values), IndexedArray(index=index), IndexedArray()
IndexedArrayCall(rows, index, K) ==
    Call("IndexedArray", "IndexedArray",
         Passing(dict, [values |-> np_array(rows), index |-> index], K))

\* StellarGraph(IndexedArray(<array>, index=<index>), <edges>, ...)
IndexedCall(rows, index, pairs, K) ==
    Call("indexed", "StellarGraph",
         Passing([nodes |-> IndexedArray([values |-> np_array(rows), index |-> index]),
                  edges |-> EdgeFrame(pairs)], Defaults, K))

\* StellarGraph({"foo": IndexedArray(index=<foo>), "bar": IndexedArray(index=<bar>)}, <edges>)
DictCall(foo, bar, pairs) ==
    Call("dict", "StellarGraph",
         [nodes |-> [kind |-> "dict",
                     items |-> [foo |-> IndexedArray([index |-> foo]),
                                bar |-> IndexedArray([index |-> bar])]],
          edges |-> EdgeFrame(pairs)])

\* StellarGraph({"foo": IndexedArray(index=<foo>), "bar": IndexedArray(<array>, index=<bar>)}, <no edges>)
FeatureDictCall(foo, rows, bar) ==
    Call("feature dict", "StellarGraph",
         [nodes |-> [kind |-> "dict",
                     items |-> [foo |-> IndexedArray([index |-> foo]),
                                bar |-> IndexedArray([values |-> np_array(rows), index |-> bar])]],
          edges |-> EdgeFrame(<<>>)])

\* The attributes an edge or a node of a small graph may carry.
EdgeData ==
    <<dict, [label |-> "cites"], [kind |-> "cites"], [weight |-> 2], [distance |-> 3],
      [label |-> "cites", weight |-> 2]>>

NodeData == <<dict, [label |-> "foo"], [type |-> "foo"], [label |-> "foo", type |-> "baz"]>>

Classes == <<nx_Graph, nx_DiGraph, nx_MultiGraph, nx_MultiDiGraph>>

EdgeKeywords ==
    [edge_weight_attr |-> "distance", edge_type_attr |-> "kind", edge_type_default |-> "line"]

NodeKeywords == [node_type_attr |-> "type", node_type_default |-> "bar"]

\* G.add_edge(u, v, **data) for each <<u, v, data>> of es in turn.
RECURSIVE add_edges(_, _)
add_edges(G, es) ==
    IF es = <<>> THEN G
    ELSE add_edges(add_edge(G, es[1][1], es[1][2], EdgeData[es[1][3]]), Tail(es))

\* G.nodes[n].update(data)
update_node(G, n, data) == [G EXCEPT !.attr[n] = update(@, data)]

\* from_networkx(<graph with the edges es>, ...)
EdgesCall(class, es, K) ==
    Call("edges", "from_networkx",
         Passing([graph |-> add_edges(Classes[class], es)], EdgeKeywords, K))

\* A DataFrame of one column whose i-th row holds i.00, with the given index.
FeatureFrame(index) ==
    pd_DataFrame_index(<<"x">>, [x |-> [i \in DOMAIN index |-> 100 * i]], index)

\* The ways of passing a DataFrame as node_features: by itself, or in a dict
\* under a node type.
FeatureForms == <<"DataFrame", "default", "foo">>

\* from_networkx(<graph joining "a" and "b", "a" carrying the attributes a>, node_features=...)
FeaturesCall(a, form, index) ==
    Call("features", "from_networkx",
         [graph |-> update_node(add_edge(nx_Graph, "a", "b", dict), "a", NodeData[a]),
          node_features |->
              IF FeatureForms[form] = "DataFrame" THEN FeatureFrame(index)
              ELSE [kind |-> "dict",
                    items |-> [t \in {FeatureForms[form]} |-> FeatureFrame(index)]]])

\* from_networkx(<graph to which u -- v is added twice>)
ParallelCall(class, u, v, first, second) ==
    Call("parallel", "from_networkx",
         [graph |-> add_edge(add_edge(Classes[class], u, v, EdgeData[first]),
                             u, v, EdgeData[second])])

\* from_networkx(<graph joining "a" and "b", which carry the attributes a and b>, ...)
NodesCall(class, a, b, K) ==
    Call("nodes", "from_networkx",
         Passing([graph |-> update_node(update_node(
                                add_edge(Classes[class], "a", "b", dict),
                                "a", NodeData[a]), "b", NodeData[b])],
                 NodeKeywords, K))

\* No workflow event is delivered while a notebook is run.
NoEvent == [type |-> "none", branch |-> "none", action |-> "none"]

InitKernel ==
    /\ event = NoEvent
    /\ run = "pending"
    /\ instances = <<>>
    /\ status = <<>>
    /\ steps = <<>>
    /\ cancelled = {}
    /\ conclusion = <<>>
    /\ result = NoResult
    /\ NoIngestion
    /\ NoTraining
    /\ \/ \E i \in DOMAIN NotebookCalls : call = NotebookCalls[i]
       \/ \E rows \in SeqUpTo(FeatureRows, MaxRows),
             pairs \in SeqUpTo((0..MaxRows) \X (0..MaxRows), MaxEdges),
             K \in SUBSET DOMAIN Defaults :
             call = ArrayCall(rows, pairs, K)
       \/ \E rows \in SeqUpTo(FeatureRows, MaxRows), index \in SeqUpTo(Ids, MaxIndex),
             K \in SUBSET {"values", "index"} :
             call = IndexedArrayCall(rows, index, K)
       \/ \E rows \in SeqUpTo(FeatureRows, MaxRows), index \in SeqUpTo(Ids, MaxIndex),
             pairs \in SeqUpTo(Ids \X Ids, MaxEdges),
             K \in SUBSET DOMAIN Defaults :
             call = IndexedCall(rows, index, pairs, K)
       \/ \E foo \in SeqUpTo(Ids, MaxIndex), bar \in SeqUpTo(Ids, MaxIndex),
             pairs \in SeqUpTo(Ids \X Ids, MaxEdges) :
             call = DictCall(foo, bar, pairs)
       \/ \E foo \in SeqUpTo(Ids, MaxIndex), bar \in SeqUpTo(Ids, MaxIndex),
             rows \in SeqUpTo(FeatureRows, MaxRows) :
             call = FeatureDictCall(foo, rows, bar)
       \/ \E class \in DOMAIN Classes,
             es \in SeqUpTo(Ids \X Ids \X DOMAIN EdgeData, MaxEdges),
             K \in SUBSET DOMAIN EdgeKeywords :
             call = EdgesCall(class, es, K)
       \/ \E a \in DOMAIN NodeData, form \in DOMAIN FeatureForms,
             index \in SeqUpTo(Ids, MaxIndex) :
             call = FeaturesCall(a, form, index)
       \/ \E class \in DOMAIN Classes, u \in Ids, v \in Ids,
             first \in DOMAIN EdgeData, second \in DOMAIN EdgeData :
             call = ParallelCall(class, u, v, first, second)
       \/ \E class \in DOMAIN Classes, a \in DOMAIN NodeData, b \in DOMAIN NodeData,
             K \in SUBSET DOMAIN NodeKeywords :
             call = NodesCall(class, a, b, K)

\* The kernel runs the cell.
Run ==
    /\ call.fn # "none"
    /\ result.kind = "none"
    /\ result' = CASE call.fn = "StellarGraph" -> StellarGraph(call.args)
                   [] call.fn = "from_networkx" -> from_networkx(call.args)
                   [] call.fn = "IndexedArray" -> IndexedArray(call.args)
    /\ UNCHANGED <<call, ciVars, dbVars, cvVars>>

NextKernel == Run

SpecKernel == InitKernel /\ [][NextKernel]_vars

(***************************************************************************)
(* Properties of the graph construction.                                   *)
(***************************************************************************)
Ran == result.kind # "none"

Returned == Ran /\ ~Raised(result)

\* The cell c was run and info() of its graph is what the notebook recorded.
Recorded(c, printed) ==
    (call.cell = c.cell /\ Ran) => (~Raised(result) /\ info(result) = printed)

NoRepeat(index) == \A i, j \in DOMAIN index : index[i] = index[j] => i = j

\* Some node ID is in the index of two different node types.
SharedId(items) ==
    \E t1, t2 \in {t \in DOMAIN items : ~Raised(items[t])} :
        t1 # t2 /\ Range(items[t1].index) \cap Range(items[t2].index) # {}

FromDict == call.fn = "StellarGraph" /\ call.args.nodes.kind = "dict"

\* C1: StellarGraph on a dict of node types raises, and returns no graph,
\* when a node ID is in the index of two different types; when it returns a
\* graph, no ID is shared between types or repeated within one, and the graph
\* has one node per index element.  The notebook's square_foo_overlap ("b"
\* under "foo" as well as under "bar") raises.
C1_DuplicateNodeIds ==
    /\ (Ran /\ FromDict /\ SharedId(call.args.nodes.items)) => Raised(result)
    /\ (Returned /\ FromDict) =>
          LET items == call.args.nodes.items IN
          /\ ~SharedId(items)
          /\ \A t \in DOMAIN items : NoRepeat(items[t].index)
          /\ DOMAIN result.node_type = UNION {Range(items[t].index) : t \in DOMAIN items}
    /\ (call.cell = "square_foo_overlap_and_bar" /\ Ran) => Raised(result)

C1_Witness ==
    /\ call.cell = "square_foo_overlap_and_bar"
    /\ SharedId(call.args.nodes.items)
    /\ Ran
    /\ Raised(result)

Homogeneous(graph, node_type, edge_type) ==
    /\ graph.node_types = {node_type}
    /\ graph.edge_types = {edge_type}
    /\ \A n \in DOMAIN graph.node_type : graph.node_type[n] = node_type
    /\ \A i \in DOMAIN graph.edges : graph.edges[i].type = edge_type

SingleArray ==
    call.fn = "StellarGraph" /\ call.args.nodes.kind \in {"ndarray", "IndexedArray"}

\* A NetworkX graph none of whose nodes and edges carries the attribute its
\* type is read from.
Untyped ==
    /\ call.fn = "from_networkx"
    /\ LET G == call.args.graph IN
       /\ \A n \in Range(G.nodes) :
             Arg(call.args, "node_type_attr", "label") \notin DOMAIN G.attr[n]
       /\ \A i \in DOMAIN G.edges :
             Arg(call.args, "edge_type_attr", "label") \notin DOMAIN G.edges[i].data

C8_NodeIdsAndFeatures ==
    /\ (Returned /\ call.fn = "StellarGraph" /\ call.args.nodes.kind = "ndarray") =>
          LET rows == call.args.nodes.values IN
          /\ DOMAIN result.node_features = 0 .. Len(rows) - 1
          /\ \A i \in DOMAIN rows : result.node_features[i - 1] = rows[i]
    /\ (Ran /\ call.fn = "IndexedArray" /\ DOMAIN call.args = {"values", "index"}) =>
          IF Len(call.args.index) = Len(call.args.values.values)
          THEN /\ ~Raised(result)
               /\ result.index = call.args.index
               /\ result.values = call.args.values.values
          ELSE Raised(result)
    /\ (Ran /\ call.fn = "StellarGraph" /\ call.args.nodes.kind = "error") => Raised(result)
    /\ (Returned /\ call.fn = "StellarGraph" /\ call.args.nodes.kind = "IndexedArray") =>
          LET nodes == call.args.nodes IN
          /\ Len(nodes.index) = Len(nodes.values)
          /\ DOMAIN result.node_features = Range(nodes.index)
          /\ \A i \in DOMAIN nodes.index : result.node_features[nodes.index[i]] = nodes.values[i]
    /\ (call.cell \in {"square_numeric", "square_named"} /\ Ran) => ~Raised(result)

C8_Witness ==
    /\ call.cell = "square_numeric"
    /\ Returned
    /\ DOMAIN result.node_features = 0..3
    /\ result.node_features[3] = <<400, -50>>

\* The edges of the returned graph that NetworkX edge e and the edges
\* parallel to it became.
Converted(G, e) ==
    {j \in DOMAIN result.edges :
        \/ result.edges[j].source = e.u /\ result.edges[j].target = e.v
        \/ /\ G.class \in {"Graph", "MultiGraph"}
           /\ result.edges[j].source = e.v /\ result.edges[j].target = e.u}

\* The edges of G between the end points of e (one, unless G is a multigraph).
Parallel(G, e) ==
    {k \in DOMAIN G.edges :
        \/ G.edges[k].u = e.u /\ G.edges[k].v = e.v
        \/ /\ G.class \in {"Graph", "MultiGraph"}
           /\ G.edges[k].u = e.v /\ G.edges[k].v = e.u}

EdgesKept(G) ==
    /\ Len(result.edges) = Len(G.edges)
    /\ \A i \in DOMAIN G.edges :
          Cardinality(Converted(G, G.edges[i])) = Cardinality(Parallel(G, G.edges[i]))

\* Between any two nodes, as many returned edges have the value got as edges
\* of G have the value expected.
SameValues(G, got(_), expected(_)) ==
    \A i \in DOMAIN G.edges :
        Cardinality({j \in Converted(G, G.edges[i]) :
                        got(result.edges[j]) = expected(G.edges[i])})
        = Cardinality({k \in Parallel(G, G.edges[i]) :
                        expected(G.edges[k]) = expected(G.edges[i])})

\* C9: from_networkx gives every node the value of its node_type_attr
\* attribute ("label" unless given) as type, or node_type_default ("default"
\* unless given) if the node has no such attribute, and likewise every edge
\* with edge_type_attr and edge_type_default; so all nodes have type
\* node_type_default when none carries the attribute.  The notebook records
\* it for square_foo_bar, square_foo_bar_default, square_foo_bar_other and
\* square_orientation.
C9_TypeAttributes ==
    /\ (Ran /\ call.fn = "from_networkx" /\ ~Has(call.args, "node_features")) => ~Raised(result)
    /\ (Returned /\ call.fn = "from_networkx") =>
          LET G == call.args.graph
              node_type_attr == Arg(call.args, "node_type_attr", "label")
              edge_type_attr == Arg(call.args, "edge_type_attr", "label")
              node_type_default == Arg(call.args, "node_type_default", "default")
              edge_type_default == Arg(call.args, "edge_type_default", "default")
          IN  /\ DOMAIN result.node_type = Range(G.nodes)
              /\ \A n \in Range(G.nodes) :
                    result.node_type[n] =
                        IF node_type_attr \in DOMAIN G.attr[n]
                        THEN G.attr[n][node_type_attr] ELSE node_type_default
              /\ EdgesKept(G)
              /\ SameValues(G, LAMBDA e : e.type,
                                LAMBDA e : IF edge_type_attr \in DOMAIN e.data
                                           THEN e.data[edge_type_attr] ELSE edge_type_default)
              /\ (\A n \in Range(G.nodes) : node_type_attr \notin DOMAIN G.attr[n]) =>
                    \A n \in Range(G.nodes) : result.node_type[n] = node_type_default
    /\ Recorded(square_foo_bar, square_foo_bar_info)
    /\ Recorded(square_foo_bar_default, square_foo_bar_default_info)
    /\ Recorded(square_foo_bar_other, square_foo_bar_other_info)
    /\ Recorded(square_orientation, square_orientation_info)

C9_Witness ==
    /\ call.cell = "square_foo_bar_other"
    /\ call.args.node_type_attr = "type"
    /\ \E n \in Range(call.args.graph.nodes) : "label" \in DOMAIN call.args.graph.attr[n]
    /\ Returned
    /\ \A n \in DOMAIN result.node_type : result.node_type[n] = "bar"

\* C10: from_networkx gives every edge the value of its edge_weight_attr
\* attribute ("weight" unless given) as weight, or 1 if the edge has no such
\* attribute; when no edge carries the attribute, info() prints "all 1
\* (default)" for every edge type.  The notebook records the weights 1 to 5 of
\* square_weighted and "all 1 (default)" for square.
C10_EdgeWeights ==
    /\ (Ran /\ call.fn = "from_networkx" /\ ~Has(call.args, "node_features")) => ~Raised(result)
    /\ (Returned /\ call.fn = "from_networkx") =>
          LET G == call.args.graph
              edge_weight_attr == Arg(call.args, "edge_weight_attr", "weight")
          IN  /\ EdgesKept(G)
              /\ SameValues(G, LAMBDA e : e.weight,
                                LAMBDA e : IF edge_weight_attr \in DOMAIN e.data
                                           THEN e.data[edge_weight_attr] ELSE 1)
              /\ (\A i \in DOMAIN G.edges : edge_weight_attr \notin DOMAIN G.edges[i].data) =>
                    \A tr \in DOMAIN info(result).weights : info(result).weights[tr].all_1
    /\ Recorded(square_weighted, square_weighted_info)
    /\ (call.cell = "square" /\ Ran) =>
          info(result).weights = square_info.weights

C10_Witness ==
    /\ call.cell = "square_weighted_other"
    /\ call.args.edge_weight_attr = "distance"
    /\ Returned
    /\ result.edges # <<>>
    /\ \A i \in DOMAIN result.edges : result.edges[i].weight = 1
    /\ \A tr \in DOMAIN info(result).weights : info(result).weights[tr] = all_1

\* The type under whose array the node ID n is listed.
ListedUnder(items, n) == {t \in DOMAIN items : n \in Range(items[t].index)}

\* C11: a StellarGraph built from a dict of node types has exactly the node
\* types of the dict, and every node has the type under whose array its ID is
\* listed; a graph built from a single IndexedArray has one node type only;
\* the nodes of an IndexedArray given an index but no values have no features.
\* The notebook records it for square_foo_and_bar: one "foo" node without
\* features and three "bar" nodes with two features each.
C11_NodeTypesOfDict ==
    /\ (Returned /\ FromDict) =>
          LET items == call.args.nodes.items IN
          /\ result.node_types = DOMAIN items
          /\ \A n \in DOMAIN result.node_type : ListedUnder(items, n) = {result.node_type[n]}
          /\ \A t \in DOMAIN items : \A i \in DOMAIN items[t].index :
                /\ result.node_type[items[t].index[i]] = t
                /\ result.node_features[items[t].index[i]] = items[t].values[i]
    /\ (Returned /\ call.fn = "StellarGraph" /\ call.args.nodes.kind = "IndexedArray") =>
          Cardinality(result.node_types) = 1
    /\ (Returned /\ call.cell \in {"dict", "feature dict"}) =>
          \A i \in DOMAIN call.args.nodes.items.foo.index :
             result.node_features[call.args.nodes.items.foo.index[i]] = <<>>
    /\ Recorded(square_foo_and_bar, square_foo_and_bar_info)
    /\ (call.cell = "square_foo_and_bar" /\ Ran) =>
          features_info(result) = square_foo_and_bar_features

C11_Witness ==
    /\ call.cell = "square_foo_and_bar"
    /\ Returned
    /\ result.node_types = {"foo", "bar"}
    /\ result.node_type["a"] = "foo"
    /\ result.node_features["a"] = <<>>
    /\ result.node_type["d"] = "bar"
    /\ result.node_features["d"] = <<90, 30000>>

RECURSIVE SumOver(_, _)
SumOver(f, S) ==
    IF S = {} THEN 0
    ELSE LET x == CHOOSE y \in S : TRUE IN f[x] + SumOver(f, S \ {x})

\* The sum of the counts that info() lists.
Total(counts) == SumOver(counts, DOMAIN counts)

\* The totals of a printed info() are the sums of its per-type counts.
Consistent(printed) ==
    /\ printed.nodes = Total(printed.node_types)
    /\ printed.edges = Total(printed.edge_types)

\* C12: the number of nodes info() reports is the number of nodes of the graph
\* and the sum of its per-node-type counts; the number of edges it reports is
\* the number of edges of the graph and the sum of the counts of its edge type
\* triples, every edge falling under exactly one listed triple.  The outputs
\* recorded for square_foo_and_bar, square_foo_bar and stellar_everything add
\* up in this way.
C12_InfoCounts ==
    /\ (Returned /\ call.fn \in {"StellarGraph", "from_networkx"}) =>
          LET printed == info(result) IN
          /\ Consistent(printed)
          /\ printed.nodes = Cardinality(DOMAIN result.node_type)
          /\ printed.edges = Len(result.edges)
          /\ \A i \in DOMAIN result.edges :
                Cardinality({tr \in DOMAIN printed.edge_types :
                    /\ tr[1] = result.node_type[result.edges[i].source]
                    /\ tr[2] = result.edges[i].type
                    /\ tr[3] = result.node_type[result.edges[i].target]}) = 1
          /\ \A tr \in DOMAIN printed.edge_types : printed.edge_types[tr] >= 1
    /\ Recorded(square_foo_and_bar, square_foo_and_bar_info)
    /\ Recorded(square_foo_bar, square_foo_bar_info)
    /\ Recorded(stellar_everything, stellar_everything_info)
    /\ (Ran /\ call.cell = "square_foo_and_bar") => Consistent(square_foo_and_bar_info)
    /\ (Ran /\ call.cell = "square_foo_bar") => Consistent(square_foo_bar_info)
    /\ (Ran /\ call.cell = "stellar_everything") => Consistent(stellar_everything_info)

C12_Witness ==
    /\ call.cell = "stellar_everything"
    /\ Returned
    /\ info(result).nodes = 4
    /\ Total(info(result).node_types) = 4
    /\ info(result).edges = 5
    /\ Cardinality(DOMAIN info(result).edge_types) = 5

\* C13: from_networkx returns a StellarDiGraph for an nx.DiGraph and an
\* nx.MultiDiGraph and a StellarGraph for an nx.Graph and an nx.MultiGraph,
\* with as many nodes and as many edges as the NetworkX graph has; the edges
\* of a directed graph keep their direction.  The notebook records a
\* StellarDiGraph of 4 nodes and 5 edges for square_directed and a
\* StellarGraph of 4 nodes and 5 edges for square.
C13_Directed ==
    /\ (Returned /\ call.fn = "from_networkx") =>
          LET G == call.args.graph IN
          /\ result.kind = "StellarDiGraph" <=> G.class \in {"DiGraph", "MultiDiGraph"}
          /\ result.kind = "StellarGraph" <=> G.class \in {"Graph", "MultiGraph"}
          /\ Cardinality(DOMAIN result.node_type) = Len(G.nodes)
          /\ NoRepeat(G.nodes)
          /\ Len(result.edges) = Len(G.edges)
          /\ EdgesKept(G)
          /\ G.class \in {"DiGraph", "MultiDiGraph"} =>
                \A j \in DOMAIN result.edges : \E i \in DOMAIN G.edges :
                    result.edges[j].source = G.edges[i].u /\ result.edges[j].target = G.edges[i].v
    /\ (Returned /\ call.cell = "parallel") =>
          Len(result.edges) = IF call.args.graph.class \in {"MultiGraph", "MultiDiGraph"} THEN 2 ELSE 1
    /\ Recorded(square_directed, square_directed_info)
    /\ Recorded(square, square_info)

C13_Witness ==
    /\ call.cell = "square_directed"
    /\ call.args.graph.class = "DiGraph"
    /\ Returned
    /\ result.kind = "StellarDiGraph"
    /\ Cardinality(DOMAIN result.node_type) = 4
    /\ Len(result.edges) = 5

\* The type from_networkx is to give node n of the graph passed to it.
TypeRead(n) ==
    LET attrs == call.args.graph.attr[n]
        node_type_attr == Arg(call.args, "node_type_attr", "label")
    IN  IF node_type_attr \in DOMAIN attrs THEN attrs[node_type_attr]
        ELSE Arg(call.args, "node_type_default", "default")

NodesOfType(t) == {n \in Range(call.args.graph.nodes) : TypeRead(n) = t}

\* The DataFrames passed as node_features, by node type: one DataFrame
\* stands for the node type of a graph that has only one.
FramesPassed ==
    IF call.args.node_features.kind = "dict" THEN call.args.node_features.items
    ELSE [t \in {TypeRead(n) : n \in Range(call.args.graph.nodes)} |-> call.args.node_features]

WithFrames ==
    /\ call.fn = "from_networkx"
    /\ Has(call.args, "node_features")
    /\ call.args.node_features.kind \in {"DataFrame", "dict"}

read_cites(lines) ==
    [i \in DOMAIN lines |->
        [target |-> lines[i][1], source |-> lines[i][2], label |-> "cites"]]

\* cora.content holds one paper per line: its id, its word vector and its
\* subject.  With one name fewer than there are columns, read_csv makes the
\* first column the index.
read_content(lines) ==
    [i \in DOMAIN lines |->
        [index |-> lines[i][1], w |-> lines[i][2], subject |-> lines[i][3]]]

\* The word columns are gathered into one list per row, and the index is
\* copied into the column "id".
preprocess(frame) ==
    [i \in DOMAIN frame |->
        [subject |-> frame[i].subject, features |-> frame[i].w, id |-> frame[i].index]]

\* frame.loc[start:end], which the notebook does not use: the row at end is
\* part of the slice.
loc(frame, start, end) ==
    SubSeq(frame, start + 1, IF end + 1 < Len(frame) THEN end + 1 ELSE Len(frame))

\* frame.iloc[start:end].to_dict("records"), positions counted from zero.
iloc(frame, start, end) ==
    SubSeq(frame, start + 1, IF end < Len(frame) THEN end ELSE Len(frame))

\* range(start, stop, step)
range(start, stop, step) == {i \in start..(stop - 1) : (i - start) % step = 0}

batch_len == 500

(***************************************************************************)
(* Cypher.  A query returns the database it leaves, or an error and the    *)
(* database as it was: the transaction of a failed query is rolled back.   *)
(***************************************************************************)
Done(db) == [kind |-> "ok", graph |-> db]

Failed(db, why) == [kind |-> "error", graph |-> db, why |-> why]

\* The ids are integers already; toInteger leaves an integer as it is.
toInteger(v) == v

Names(list) == {list[i].name : i \in DOMAIN list}

Without(list, name) == SelectSeq(list, LAMBDA x : x.name # name)

\* MATCH(n) DETACH DELETE(n)
empty_db_query(db) == Done([db EXCEPT !.nodes = <<>>, !.relationships = <<>>])

\* CALL db.constraints
db_constraints(db) == db.constraints

\* CALL db.indexes
db_indexes(db) == db.indexes

\* DROP CONSTRAINT name: the index that backs the constraint goes with it.
drop_constraint(db, name) ==
    IF name \notin Names(db.constraints)
    THEN Failed(db, "no such constraint")
    ELSE Done([db EXCEPT !.constraints = Without(@, name),
                         !.indexes = SelectSeq(@, LAMBDA x : x.owner # name)])

\* DROP INDEX name: an index that backs a constraint cannot be dropped.
drop_index(db, name) ==
    IF name \notin Names(db.indexes)
    THEN Failed(db, "no such index")
    ELSE IF \E i \in DOMAIN db.indexes : db.indexes[i].name = name /\ db.indexes[i].owner # ""
    THEN Failed(db, "index belongs to constraint")
    ELSE Done([db EXCEPT !.indexes = Without(@, name)])

\* The nodes with the label, by running.
Labelled(db, label) == {n \in DOMAIN db.nodes : db.nodes[n].label = label}

Unique(db, label) ==
    \A n, o \in Labelled(db, label) : db.nodes[n].ID = db.nodes[o].ID => n = o

Constrained(db, label) ==
    \E i \in DOMAIN db.constraints : db.constraints[i].label = label

Indexed(db, label) ==
    \E i \in DOMAIN db.indexes : db.indexes[i].label = label

\* UNWIND $node_list as node CREATE (e: paper {ID, subject, features}):
\* one new node per record, whatever the database holds; under a uniqueness
\* constraint the query fails instead of storing an ID twice.
loading_node_query(db, records) ==
    LET created == [i \in DOMAIN records |->
                       [label |-> "paper",
                        ID |-> toInteger(records[i].id),
                        subject |-> records[i].subject,
                        features |-> records[i].features]]
        after == [db EXCEPT !.nodes = @ \o created]
    IN  IF Constrained(db, "paper") /\ ~Unique(after, "paper")
        THEN Failed(db, "node already exists")
        ELSE Done(after)

\* MATCH (source: paper {ID}) MATCH (target: paper {ID}): every pair of
\* paper nodes with the edge's two ids.
matched(db, edge) ==
    {n \in Labelled(db, "paper") : db.nodes[n].ID = toInteger(edge.source)}
        \X {n \in Labelled(db, "paper") : db.nodes[n].ID = toInteger(edge.target)}

cites(pair) == [start |-> pair[1], end |-> pair[2], type |-> "cites"]

\* CREATE (source)-[r:cites]->(target), which the query does not say: a
\* new relationship for each matched pair, whatever the two nodes have.
RECURSIVE create(_, _)
create(relationships, pairs) ==
    IF pairs = {}
    THEN relationships
    ELSE LET pair == CHOOSE p \in pairs : TRUE
         IN  create(Append(relationships, cites(pair)), pairs \ {pair})

\* MERGE (source)-[r:cites]->(target), for each matched pair: the
\* relationship is created unless the two nodes already have it.
RECURSIVE merge(_, _)
merge(relationships, pairs) ==
    IF pairs = {}
    THEN relationships
    ELSE LET pair == CHOOSE p \in pairs : TRUE
             found == \E r \in DOMAIN relationships : relationships[r] = cites(pair)
         IN  merge(IF found THEN relationships ELSE Append(relationships, cites(pair)),
                   pairs \ {pair})

\* UNWIND $edge_list as edge ..., record after record from the first of
\* the given ones to the last: the first half of them, then the rest.  An
\* error ends the query.
RECURSIVE unwind_edges(_, _, _, _)
unwind_edges(before, records, first, last) ==
    IF before.kind = "error" \/ first > last
    THEN before
    ELSE IF first = last
    THEN Done([before.graph EXCEPT
                 !.relationships = merge(@, matched(before.graph, records[first]))])
    ELSE LET middle == (first + last) \div 2
         IN  unwind_edges(unwind_edges(before, records, first, middle),
                          records, middle + 1, last)

loading_edge_query(db, records) == unwind_edges(Done(db), records, 1, Len(records))

\* CREATE INDEX ON :paper(ID), which the notebook does not send: an index
\* is stored whatever the ids of the nodes are.
node_id_index(db) ==
    IF Indexed(db, "paper") THEN Failed(db, "index already exists")
    ELSE Done([db EXCEPT
                 !.indexes = Append(@, [name |-> "index_paper_ID", label |-> "paper",
                                        owner |-> ""])])

\* CREATE CONSTRAINT ON (n:paper) ASSERT n.ID IS UNIQUE: refused when the
\* nodes already stored break it, or when the constraint or an index on the
\* same property is there already; otherwise the constraint is stored with
\* the index that backs it.
node_id_constraint(db) ==
    IF Constrained(db, "paper") THEN Failed(db, "constraint already exists")
    ELSE IF Indexed(db, "paper") THEN Failed(db, "index already exists")
    ELSE IF ~Unique(db, "paper") THEN Failed(db, "nodes share an ID")
    ELSE Done([db EXCEPT
                 !.constraints = Append(@, [name |-> "constraint_paper_ID", label |-> "paper"]),
                 !.indexes = Append(@, [name |-> "index_paper_ID", label |-> "paper",
                                        owner |-> "constraint_paper_ID"])])

\* for constraint in constraints: graph.run(f"DROP CONSTRAINT {name}"),
\* from the k-th on; the first error ends the loop.  The loop reports how
\* many queries it ran.
RECURSIVE drop_constraints(_, _, _)
drop_constraints(db, constraints, k) ==
    IF k > Len(constraints)
    THEN [outcome |-> Done(db), ran |-> k - 1]
    ELSE LET dropped == drop_constraint(db, constraints[k].name)
         IN  IF dropped.kind = "error"
             THEN [outcome |-> dropped, ran |-> k]
             ELSE drop_constraints(dropped.graph, constraints, k + 1)

\* for index in indexes: graph.run(f"DROP INDEX {name}")
RECURSIVE drop_indexes(_, _, _)
drop_indexes(db, indexes, k) ==
    IF k > Len(indexes)
    THEN [outcome |-> Done(db), ran |-> k - 1]
    ELSE LET dropped == drop_index(db, indexes[k].name)
         IN  IF dropped.kind = "error"
             THEN [outcome |-> dropped, ran |-> k]
             ELSE drop_indexes(dropped.graph, indexes, k + 1)

(***************************************************************************)
(* The notebook.                                                           *)
(***************************************************************************)

\* The order the notebook does not have: the edges loaded before the nodes.
NotebookEdgesFirst ==
    <<"empty_db", "drop_constraints", "drop_indexes",
      "load_edges", "load_nodes", "node_id_constraint">>

\* The steps of the notebook that reach the database, in the order of its
\* cells; the two loops of one cell are two steps.
Notebook ==
    <<"empty_db", "drop_constraints", "drop_indexes",
      "load_nodes", "load_edges", "node_id_constraint">>

\* Where the kernel goes after a step: to the next one, to the end of the
\* notebook, or nowhere when the step raised.
After(step, outcome) ==
    IF outcome.kind = "error" THEN "raised"
    ELSE LET k == CHOOSE i \in DOMAIN Notebook : Notebook[i] = step
         IN  IF k = Len(Notebook) THEN "done" ELSE Notebook[k + 1]

Sent(query, parameters) == [query |-> query, parameters |-> parameters]

\* The first n queries of a loop that drops the listed names one by one.
Drops(query, list, n) == [i \in 1..n |-> Sent(query, <<list[i].name>>)]

\* tx.evaluate(empty_db_query)
EmptyDb ==
    /\ running = "empty_db"
    /\ LET outcome == empty_db_query(database) IN
       /\ database' = outcome.graph
       /\ running' = After("empty_db", outcome)
    /\ queries' = Append(queries, Sent("empty_db_query", <<>>))
    /\ UNCHANGED <<node_list, edge_list, batch_start, ciVars, nbVars, cvVars>>

\* constraints = graph.run("CALL db.constraints").data(), and the loop over
\* them.
DropConstraints ==
    /\ running = "drop_constraints"
    /\ LET constraints == db_constraints(database)
           loop == drop_constraints(database, constraints, 1)
       IN  /\ database' = loop.outcome.graph
           /\ running' = After("drop_constraints", loop.outcome)
           /\ queries' = queries \o <<Sent("CALL db.constraints", <<>>)>>
                                 \o Drops("DROP CONSTRAINT", constraints, loop.ran)
    /\ UNCHANGED <<node_list, edge_list, batch_start, ciVars, nbVars, cvVars>>

\* indexes = graph.run("CALL db.indexes").data(), and the loop over them.
DropIndexes ==
    /\ running = "drop_indexes"
    /\ LET indexes == db_indexes(database)
           loop == drop_indexes(database, indexes, 1)
       IN  /\ database' = loop.outcome.graph
           /\ running' = After("drop_indexes", loop.outcome)
           /\ queries' = queries \o <<Sent("CALL db.indexes", <<>>)>>
                                 \o Drops("DROP INDEX", indexes, loop.ran)
    /\ UNCHANGED <<node_list, edge_list, batch_start, ciVars, nbVars, cvVars>>

\* One pass of the loop that loads the nodes: the batch that starts at
\* batch_start is sent, and the loop variable takes its next value.
LoadNodes ==
    /\ running = "load_nodes"
    /\ batch_start \in range(0, Len(node_list), batch_len)
    /\ LET batch_end == batch_start + batch_len
           records == iloc(node_list, batch_start, batch_end)
           outcome == loading_node_query(database, records)
       IN  /\ database' = outcome.graph
           /\ queries' = Append(queries, Sent("loading_node_query", records))
           /\ running' = IF outcome.kind = "error" THEN "raised" ELSE running
    /\ batch_start' = batch_start + batch_len
    /\ UNCHANGED <<node_list, edge_list, ciVars, nbVars, cvVars>>

\* The range is used up: the cell ends and the next one starts.
NodesLoaded ==
    /\ running = "load_nodes"
    /\ batch_start \notin range(0, Len(node_list), batch_len)
    /\ running' = After("load_nodes", Done(database))
    /\ batch_start' = 0
    /\ UNCHANGED <<database, queries, node_list, edge_list, ciVars, nbVars, cvVars>>

\* One pass of the loop that loads the edges.
LoadEdges ==
    /\ running = "load_edges"
    /\ batch_start \in range(0, Len(edge_list), batch_len)
    /\ LET batch_end == batch_start + batch_len
           records == iloc(edge_list, batch_start, batch_end)
           outcome == loading_edge_query(database, records)
       IN  /\ database' = outcome.graph
           /\ queries' = Append(queries, Sent("loading_edge_query", records))
           /\ running' = IF outcome.kind = "error" THEN "raised" ELSE running
    /\ batch_start' = batch_start + batch_len
    /\ UNCHANGED <<node_list, edge_list, ciVars, nbVars, cvVars>>

EdgesLoaded ==
    /\ running = "load_edges"
    /\ batch_start \notin range(0, Len(edge_list), batch_len)
    /\ running' = After("load_edges", Done(database))
    /\ batch_start' = 0
    /\ UNCHANGED <<database, queries, node_list, edge_list, ciVars, nbVars, cvVars>>

\* tx.evaluate(node_id_constraint)
CreateConstraint ==
    /\ running = "node_id_constraint"
    /\ LET outcome == node_id_constraint(database) IN
       /\ database' = outcome.graph
       /\ running' = After("node_id_constraint", outcome)
    /\ queries' = Append(queries, Sent("node_id_constraint", <<>>))
    /\ UNCHANGED <<node_list, edge_list, batch_start, ciVars, nbVars, cvVars>>

(***************************************************************************)
(* The runs that are followed.  Small files take every combination of a    *)
(* few papers and citations, ids that repeat or match no paper included,   *)
(* against each database the notebook may find; long files are as long as  *)
(* one batch, one row shorter or longer, and longer than two batches.      *)
(***************************************************************************)
MaxPapers == 2

MaxCitations == 2

PaperIds == {35, 1033}

\* 40 is cited or cites in cora.cites but is no paper of cora.content.
CitedIds == PaperIds \cup {40}

ContentLines ==
    {<<35, <<0, 1>>, "Neural_Networks">>,
     <<35, <<1, 0>>, "Rule_Learning">>,
     <<1033, <<1, 0>>, "Neural_Networks">>}

CitesLines == CitedIds \X CitedIds

\* A database left by an earlier run of this notebook.
EarlierRun ==
    [nodes |-> <<[label |-> "paper", ID |-> 35, subject |-> "Neural_Networks",
                  features |-> <<0, 1>>],
                 [label |-> "paper", ID |-> 1033, subject |-> "Neural_Networks",
                  features |-> <<1, 0>>]>>,
     relationships |-> <<[start |-> 2, end |-> 1, type |-> "cites"]>>,
     constraints |-> <<[name |-> "constraint_paper_ID", label |-> "paper"]>>,
     indexes |-> <<[name |-> "index_paper_ID", label |-> "paper",
                    owner |-> "constraint_paper_ID"]>>]

\* A database that was used for something else: nodes of another label
\* and of this one, and indexes that belong to no constraint.
OtherUse ==
    [nodes |-> <<[label |-> "author", ID |-> 35, subject |-> "", features |-> <<>>],
                 [label |-> "paper", ID |-> 35, subject |-> "Probabilistic_Methods", features |-> <<>>]>>,
     relationships |-> <<[start |-> 1, end |-> 2, type |-> "wrote"],
                         [start |-> 2, end |-> 2, type |-> "cites"]>>,
     constraints |-> <<>>,
     indexes |-> <<[name |-> "index_paper_ID", label |-> "paper", owner |-> ""],
                   [name |-> "index_author_ID", label |-> "author", owner |-> ""]>>]

ExistingGraphs == <<EmptyGraph, EarlierRun, OtherUse>>

\* The numbers of papers and of citations of the long files.
LongLengths ==
    {<<batch_len - 1, batch_len>>,
     <<batch_len, batch_len + 1>>,
     <<batch_len + 1, 2 * batch_len + 1>>,
     <<2 * batch_len + 1, batch_len - 1>>}

\* n papers numbered from 1.
LongContent(n) == [i \in 1..n |-> <<i, <<0, 1>>, "Probabilistic_Methods">>]

\* m citations among n papers, each paper citing the one before it; the
\* lines repeat from the start when there are more lines than papers.
LongCites(m, n) == [i \in 1..m |-> <<((i - 1) % n) + 1, (i % n) + 1>>]

InitIngestion ==
    /\ event = NoEvent
    /\ run = "pending"
    /\ instances = <<>>
    /\ status = <<>>
    /\ steps = <<>>
    /\ cancelled = {}
    /\ conclusion = <<>>
    /\ call = NoCall
    /\ result = NoResult
    /\ NoTraining
    /\ running = Notebook[1]
    /\ batch_start = 0
    /\ queries = <<>>
    /\ \/ \E k \in DOMAIN ExistingGraphs,
             content \in SeqUpTo(ContentLines, MaxPapers),
             lines \in SeqUpTo(CitesLines, MaxCitations) :
             /\ database = ExistingGraphs[k]
             /\ node_list = preprocess(read_content(content))
             /\ edge_list = read_cites(lines)
       \/ \E long \in LongLengths :
             /\ database = EarlierRun
             /\ node_list = preprocess(read_content(LongContent(long[1])))
             /\ edge_list = read_cites(LongCites(long[2], long[1]))

NextIngestion ==
    \/ EmptyDb
    \/ DropConstraints
    \/ DropIndexes
    \/ LoadNodes
    \/ NodesLoaded
    \/ LoadEdges
    \/ EdgesLoaded
    \/ CreateConstraint

SpecIngestion == InitIngestion /\ [][NextIngestion]_vars

(***************************************************************************)
(* Properties of the ingestion.                                            *)
(***************************************************************************)

\* The part of the ingestion a query belongs to.
Phase(query) ==
    CASE query = "empty_db_query" -> 1
      [] query \in {"CALL db.constraints", "DROP CONSTRAINT"} -> 2
      [] query \in {"CALL db.indexes", "DROP INDEX"} -> 3
      [] query = "loading_node_query" -> 4
      [] query = "loading_edge_query" -> 5
      [] query = "node_id_constraint" -> 6

Queried(query) == \E i \in DOMAIN queries : queries[i].query = query

\* The batches sent with a query so far, in the order they were sent.
Batches(query) == SelectSeq(queries, LAMBDA sent : sent.query = query)

\* The rows of the first n batches, one after the other.
RECURSIVE Rows(_, _)
Rows(batches, n) ==
    IF n = 0 THEN <<>> ELSE Rows(batches, n - 1) \o batches[n].parameters

RowsSent(query) == Rows(Batches(query), Len(Batches(query)))

\* C15: the ingestion empties the database, then drops every constraint and
\* every index, then creates the paper nodes, then the cites relationships,
\* then the uniqueness constraint, in this order: a query of a later part is
\* never sent before one of an earlier part; when the first nodes are
\* created the database holds no node, relationship, constraint or index of
\* before; no relationship is created before all the node batches are; and
\* a notebook that ran to its end has been through every part.
C15_IngestionOrder ==
    /\ \A i, j \in DOMAIN queries :
          i < j => Phase(queries[i].query) <= Phase(queries[j].query)
    /\ queries # <<>> => queries[1].query = "empty_db_query"
    /\ running = "load_nodes" =>
          /\ Queried("CALL db.constraints") /\ Queried("CALL db.indexes")
          /\ database.constraints = <<>> /\ database.indexes = <<>>
          /\ database.relationships = <<>>
          /\ Len(database.nodes) = Len(RowsSent("loading_node_query"))
    /\ Queried("loading_edge_query") =>
          Len(RowsSent("loading_node_query")) = Len(node_list)
    /\ Queried("node_id_constraint") =>
          Len(RowsSent("loading_edge_query")) = Len(edge_list)
    /\ running = "done" =>
          /\ queries[Len(queries)].query = "node_id_constraint"
          /\ Len(RowsSent("loading_node_query")) = Len(node_list)
          /\ Constrained(database, "paper")

\* A database left by an earlier run has been emptied, its constraint
\* dropped, and loaded again with papers and citations.
C15_Witness ==
    /\ running = "done"
    /\ Queried("DROP CONSTRAINT")
    /\ database.nodes # <<>>
    /\ database.relationships # <<>>

\* The edge loop has ended.
EdgesSent == running = "node_id_constraint" \/ Queried("node_id_constraint")

\* The node at the position is a paper with the id.
IsPaper(n, id) == database.nodes[n].label = "paper" /\ database.nodes[n].ID = id

\* The paper nodes with the id, by position.
Papers(id) == {n \in DOMAIN database.nodes : IsPaper(n, id)}

\* The relationships from one node to another, by position.
Between(s, t) ==
    {r \in DOMAIN database.relationships :
        database.relationships[r].start = s /\ database.relationships[r].end = t}

\* C16: once the edges are loaded, every row of edge_list whose source and
\* target are both ids of paper nodes has exactly one relationship, of type
\* cites, from the paper with the source id to the paper with the target
\* id, however often the row occurs; every relationship of the database
\* comes from such a row, in this direction; and loading the edges creates
\* no node.  When the notebook completes there is exactly one relationship
\* per distinct row with matching ids.
C16_OneCitesPerRow ==
    /\ EdgesSent =>
          /\ \A e \in DOMAIN edge_list :
                \A s \in Papers(edge_list[e].source), t \in Papers(edge_list[e].target) :
                    /\ Cardinality(Between(s, t)) = 1
                    /\ \A r \in Between(s, t) : database.relationships[r].type = "cites"
          /\ \A r \in DOMAIN database.relationships :
                \E e \in DOMAIN edge_list :
                    /\ IsPaper(database.relationships[r].start, edge_list[e].source)
                    /\ IsPaper(database.relationships[r].end, edge_list[e].target)
    /\ (running = "load_edges" \/ EdgesSent) => Len(database.nodes) = Len(node_list)
    /\ running = "done" =>
          Len(database.relationships) =
             Cardinality({<<edge_list[e].source, edge_list[e].target>> : e \in
                 {e \in DOMAIN edge_list : /\ Papers(edge_list[e].source) # {}
                                           /\ Papers(edge_list[e].target) # {}}})

\* The notebook completed with a row that occurs twice and has its one
\* relationship, from the citing paper to the cited one, and a row whose
\* id matches no paper.
C16_Witness ==
    /\ running = "done"
    /\ \E e, f \in DOMAIN edge_list :
          /\ e # f
          /\ edge_list[e] = edge_list[f]
          /\ edge_list[e].source # edge_list[e].target
          /\ Papers(edge_list[e].source) # {}
          /\ Papers(edge_list[e].target) # {}
    /\ Len(database.relationships) = 1

\* A row whose target is no paper has left the database without
\* relationship.
C16_WitnessUnmatched ==
    /\ running = "done"
    /\ \E e \in DOMAIN edge_list :
          Papers(edge_list[e].source) # {} /\ Papers(edge_list[e].target) = {}
    /\ database.relationships = <<>>

\* The node loop has ended.
NodesSent == running = "load_edges" \/ Queried("loading_edge_query") \/ EdgesSent

\* The batches sent with the query hold the first rows of the frame, in the
\* order of the rows, each row once, and no batch is empty or longer than
\* batch_len.
InBatches(query, frame) ==
    LET batches == Batches(query)
        rows == RowsSent(query)
    IN  /\ \A b \in DOMAIN batches :
              /\ Len(batches[b].parameters) >= 1
              /\ Len(batches[b].parameters) <= batch_len
        /\ Len(rows) <= Len(frame)
        /\ rows = SubSeq(frame, 1, Len(rows))

\* C17: the node loop and the edge loop send the rows of node_list and of
\* edge_list in batches of at most batch_len rows that follow one another
\* in row order; when a loop has ended every row of its frame was sent
\* exactly once, whether the number of rows is a multiple of batch_len,
\* smaller than batch_len, or neither.
C17_Batches ==
    /\ InBatches("loading_node_query", node_list)
    /\ InBatches("loading_edge_query", edge_list)
    /\ NodesSent => RowsSent("loading_node_query") = node_list
    /\ EdgesSent => RowsSent("loading_edge_query") = edge_list

\* Both loops have ended: the nodes took two full batches and one with the
\* row left over, the edges one batch that is not full.
C17_Witness ==
    /\ EdgesSent
    /\ Len(node_list) = 2 * batch_len + 1
    /\ Len(Batches("loading_node_query")) = 3
    /\ Len(edge_list) = batch_len - 1
    /\ Len(Batches("loading_edge_query")) = 1

\* The node the loading query creates for a row of node_list.
PaperOf(row) ==
    [label |-> "paper", ID |-> row.id, subject |-> row.subject, features |-> row.features]

\* Two rows of node_list have the same id.
SharedPaperId == \E i, j \in DOMAIN node_list : i # j /\ node_list[i].id = node_list[j].id

\* C18: when the notebook completes, the nodes of the database are the
\* papers of node_list, one node per row with the row's id, subject and
\* features, no two of them have the same ID, and the uniqueness constraint
\* is in place; when two rows share an id the constraint step raises and
\* the notebook does not complete.
C18_UniqueNodeIds ==
    /\ running = "done" =>
          /\ Len(database.nodes) = Len(node_list)
          /\ \A i \in DOMAIN node_list : database.nodes[i] = PaperOf(node_list[i])
          /\ Unique(database, "paper")
          /\ Constrained(database, "paper")
    /\ (Queried("node_id_constraint") /\ SharedPaperId) =>
          running = "raised" /\ ~Constrained(database, "paper")
    /\ (Queried("node_id_constraint") /\ ~SharedPaperId) => running = "done"

\* The notebook completed with two papers of different ids in a database
\* that held other papers before.
C18_Witness ==
    /\ running = "done"
    /\ Len(node_list) >= 2
    /\ Queried("DROP INDEX")
    /\ \E i, j \in DOMAIN database.nodes : database.nodes[i].ID # database.nodes[j].ID

\* Two rows shared an id: the constraint step raised, the nodes are stored.
C18_WitnessShared ==
    /\ running = "raised"
    /\ SharedPaperId
    /\ Len(database.nodes) = Len(node_list)

(***************************************************************************)
(* Part IV.  Supervised graph classification with repeated k-fold          *)
(* cross-validation.                                                       *)
(*                                                                         *)
(* The notebook creates one EarlyStopping callback, es, and runs a loop    *)
(* over the splits of RepeatedStratifiedKFold; each pass prints the number *)
(* of the fold, creates a model, fits it with es as callback, evaluates it *)
(* and appends the accuracy to test_accs.  A model is a record of its      *)
(* identity and its weights; weights are known by the model that was       *)
(* trained to them and the number of epochs it took.  A validation loss is *)
(* a number, or not a number (NaN) once training has diverged.             *)
(***************************************************************************)

epochs == 200

folds == 10

n_repeats == 5

Finite(value) == [kind |-> "finite", value |-> value]

NaN == [kind |-> "nan", value |-> 0]

Inf == [kind |-> "inf", value |-> 0]

\* np.less(a, b): false whenever one of the two is not a number.
less(a, b) ==
    /\ a.kind # "nan" /\ b.kind # "nan"
    /\ a.kind = "finite"
    /\ b.kind = "inf" \/ a.value < b.value

\* es = EarlyStopping(monitor="val_loss", min_delta=0, patience=25,
\*                    restore_best_weights=True)
EarlyStopping ==
    [monitor |-> "val_loss", min_delta |-> 0, patience |-> 25,
     restore_best_weights |-> TRUE,
     model |-> 0, wait |-> 0, stopped_epoch |-> 0, best |-> Unset,
     best_weights |-> NoWeights]

\* Callback.set_model, called by fit.
set_model(callback, m) == [callback EXCEPT !.model = m.id]

\* EarlyStopping.on_train_begin: "allow instances to be re-used".  The wait
\* counter, the stopped epoch and the best value are set anew; the stored
\* weights are left as they are.
on_train_begin(callback) ==
    [callback EXCEPT !.wait = 0, !.stopped_epoch = 0, !.best = Inf]

\* EarlyStopping.on_epoch_end(epoch, logs), for the model being fitted m
\* and current = logs["val_loss"].  An improvement is remembered together
\* with the model's weights; without one the wait grows, and when it
\* reaches the patience training stops and the stored weights are given to
\* the model.  Model.set_weights raises when there are none.
on_epoch_end(callback, m, n, current) ==
    IF less([current EXCEPT !.value = @ - callback.min_delta], callback.best)
    THEN [kind |-> "ok",
          callback |-> [callback EXCEPT !.best = current, !.wait = 0,
                                        !.best_weights = IF callback.restore_best_weights
                                                         THEN m.weights ELSE @],
          model |-> m]
    ELSE LET waited == [callback EXCEPT !.wait = @ + 1] IN
         IF waited.wait < waited.patience
         THEN [kind |-> "ok", callback |-> waited, model |-> m]
         ELSE LET stopped == [waited EXCEPT !.stopped_epoch = n]
                  halted == [m EXCEPT !.stop_training = TRUE]
              IN  IF ~stopped.restore_best_weights
                  THEN [kind |-> "ok", callback |-> stopped, model |-> halted]
                  ELSE IF stopped.best_weights = NoWeights
                  THEN [kind |-> "error", callback |-> stopped, model |-> halted]
                  ELSE [kind |-> "ok", callback |-> stopped,
                        model |-> [halted EXCEPT !.weights = stopped.best_weights]]

\* create_graph_classification_model(generator): the k-th model created, a
\* new Keras model with weights of its own, not trained.
create_graph_classification_model(k) ==
    [id |-> k, weights |-> [model |-> k, trained |-> 0], stop_training |-> FALSE]

\* One epoch of training.
train(m) == [m EXCEPT !.weights = [model |-> m.id, trained |-> m.weights.trained + 1]]

\* model.evaluate(test_gen): the accuracy of the model it is called on.
evaluate(m) == [accuracy_of |-> m.id]

\* StratifiedKFold(n_splits).split(...), which the notebook does not use:
\* the splits of one repeat only.
split_once(n_splits, repeats) ==
    [k \in 1..n_splits |-> [repeat |-> 0, test_fold |-> k - 1]]

\* RepeatedStratifiedKFold(n_splits, n_repeats).split(...): n_splits splits
\* for each repeat, one after the other.
split(n_splits, repeats) ==
    [k \in 1..(n_splits * repeats) |->
        [repeat |-> (k - 1) \div n_splits, test_fold |-> (k - 1) % n_splits]]

stratified_folds == split(folds, n_repeats)

\* How the validation loss of one fit may develop: it falls with every
\* epoch; it stays where the first epoch left it; it falls for a few epochs
\* and stays; it falls for a few epochs and then training diverges, the
\* loss being not a number from then on; or training diverges in the first
\* epoch.
Courses == {"falls", "stays", "settles", "diverges later", "diverges"}

\* The number of epochs after which a course that changes does so.
Few == 2

\* logs["val_loss"] at the end of epoch n, epochs counted from zero.
val_loss(c, n) ==
    CASE c = "falls" -> Finite(epochs - n)
      [] c = "stays" -> Finite(epochs)
      [] c = "settles" -> Finite(IF n < Few THEN epochs - n ELSE epochs - Few)
      [] c = "diverges later" -> IF n < Few THEN Finite(epochs - n) ELSE NaN
      [] c = "diverges" -> NaN

\* print(f"Training and evaluating on fold {i+1} out of {folds * n_repeats}...")
fold_number(k) == k + 1

\* A pass of the loop starts: the fold is announced, the model is created,
\* and train_fold calls model.fit, which hands the model to es and tells it
\* that training begins.
BeginFold ==
    /\ stage = "loop"
    /\ fold < Len(stratified_folds)
    /\ stdout' = Append(stdout, [number |-> fold_number(fold), out_of |-> folds * n_repeats])
    /\ models' = models + 1
    /\ model' = create_graph_classification_model(models + 1)
    /\ stopper' = on_train_begin(set_model(stopper, model'))
    /\ epoch' = 0
    /\ course' \in Courses
    /\ stage' = "fit"
    /\ UNCHANGED <<fold, test_accs, ciVars, nbVars, dbVars>>

\* model.fit runs one more epoch and calls es at its end.
Epoch ==
    /\ stage = "fit"
    /\ epoch < epochs
    /\ ~model.stop_training
    /\ LET ended == on_epoch_end(stopper, train(model), epoch, val_loss(course, epoch)) IN
       /\ stopper' = ended.callback
       /\ model' = ended.model
       /\ stage' = IF ended.kind = "error" THEN "raised" ELSE stage
    /\ epoch' = epoch + 1
    /\ UNCHANGED <<fold, stdout, test_accs, models, course, ciVars, nbVars, dbVars>>

\* model.fit returns; train_fold evaluates the model, and the loop appends
\* the accuracy and goes to the next split.
EndFold ==
    /\ stage = "fit"
    /\ epoch = epochs \/ model.stop_training
    /\ test_accs' = Append(test_accs, evaluate(model))
    /\ fold' = fold + 1
    /\ stage' = "loop"
    /\ UNCHANGED <<stdout, model, models, stopper, epoch, course, ciVars, nbVars, dbVars>>

\* The splits are used up: the loop ends.
EndLoop ==
    /\ stage = "loop"
    /\ fold = Len(stratified_folds)
    /\ stage' = "done"
    /\ UNCHANGED <<fold, stdout, test_accs, model, models, stopper, epoch, course,
                   ciVars, nbVars, dbVars>>

InitTraining ==
    /\ event = NoEvent
    /\ run = "pending"
    /\ instances = <<>>
    /\ status = <<>>
    /\ steps = <<>>
    /\ cancelled = {}
    /\ conclusion = <<>>
    /\ call = NoCall
    /\ result = NoResult
    /\ NoIngestion
    /\ stage = "loop"
    /\ fold = 0
    /\ stdout = <<>>
    /\ test_accs = <<>>
    /\ model = NoModel
    /\ models = 0
    /\ stopper = EarlyStopping
    /\ epoch = 0
    /\ course = "none"

NextTraining ==
    \/ BeginFold
    \/ Epoch
    \/ EndFold
    \/ EndLoop

SpecTraining == InitTraining /\ [][NextTraining]_vars

(***************************************************************************)
(* Properties of the cross-validation.                                     *)
(***************************************************************************)

\* What the notebook recorded the loop to print: "Training and evaluating
\* on fold 1 out of 50..." to "... fold 50 out of 50...".
recorded_stdout == [k \in 1..50 |-> [number |-> k, out_of |-> 50]]

\* C19: the loop runs folds x n_repeats passes, 50 with the notebook's
\* parameters.  The fold numbers printed are 1, 2, 3, ... in this order,
\* each announced as one out of folds x n_repeats; every pass creates a
\* model, so that the model fitted in the k-th pass is the k-th created;
\* test_accs holds the accuracy of the k-th model at place k; and when the
\* loop has ended, folds x n_repeats folds were printed, as many models
\* created, and as many accuracies collected.
C19_FoldsTimesRepeats ==
    /\ \A k \in DOMAIN stdout :
          stdout[k].number = k /\ stdout[k].out_of = folds * n_repeats
    /\ models = Len(stdout)
    /\ stage = "fit" => model.id = Len(stdout) /\ Len(test_accs) = Len(stdout) - 1
    /\ stage = "loop" => Len(test_accs) = Len(stdout)
    /\ \A k \in DOMAIN test_accs : test_accs[k] = [accuracy_of |-> k]
    /\ stage = "done" =>
          /\ Len(stdout) = folds * n_repeats
          /\ models = folds * n_repeats
          /\ Len(test_accs) = folds * n_repeats
          /\ stdout = recorded_stdout

\* The loop has ended with the accuracies of fifty models.
C19_Witness ==
    /\ stage = "done"
    /\ Len(test_accs) = 50
    /\ test_accs[50] = [accuracy_of |-> 50]

\* C20: no training state passes from one fold to a later one through es.
\* When a fit begins, es waits from zero, has no best loss, and belongs to
\* the model of this fold, which is new and untrained; while a fit runs,
\* es has waited no longer than the epochs of this fit, and the weights of
\* the model are weights this model was trained to in this fit, never
\* those of the model of an earlier fold.
C20_NoSharedState ==
    stage = "fit" =>
        /\ stopper.model = model.id
        /\ stopper.wait <= epoch
        /\ epoch = 0 =>
              /\ stopper.wait = 0
              /\ stopper.best = Inf
              /\ model.weights = [model |-> model.id, trained |-> 0]
        /\ model.weights.model = model.id
        /\ model.weights.trained <= epoch

====
